---------------------------- MODULE Spec2Model ----------------------------
(***************************************************************************)
(* A model of the concurrent containers of the seize test bed:             *)
(*   - the two Michael-Scott FIFO queues, AtomicQueue                      *)
(*     (src/src/structures/atomic_queue.rs) and LockFreeQueue              *)
(*     (src/src/structures/lockfreequeue.rs);                              *)
(*   - the ordered set LockFreeList                                        *)
(*     (src/src/structures/lock_free_link_list.rs);                        *)
(*   - the hash map LockFreeHashMap (src/src/structures/lock_free_hash.rs) *)
(*     with the MCS lock of each bucket (src/src/structures/mcs_lock.rs).  *)
(*                                                                         *)
(* Every atomic load, store and compare_exchange of the source is one      *)
(* step of the calling thread.  Heap memory is a finite pool of addresses; *)
(* Box::from_raw + drop returns an address to the pool, Box::new takes any *)
(* free address (so an address can be used again), and a read through a    *)
(* pointer to an address that is not allocated yields any value of the     *)
(* field's type.                                                           *)
(***************************************************************************)
EXTENDS Integers, Sequences, FiniteSets, TLC

\* ------------------------------------------------------------------ bounds
\* Addresses of the heap pool the queue nodes are allocated from.
NumAddrs == 3
\* Values the producer of the one-producer workload enqueues.
MaxEnq == 2
\* Values each producer of the two-producer workload enqueues.
MaxEnqMP == 1
\* dequeue() calls each consumer makes.
MaxDeq == 2
\* The count of a dequeue call's own steps stops here.
StepCap == 4
\* dequeue() calls the drop of a queue makes at most.
MaxDrop == 3

\* Addresses of the heap pool the list nodes are allocated from.
NumLAddrs == 3
\* The values offered to the ordered set are 1..MaxVal.
MaxVal == 2
\* Calls of a freely chosen list program.
MaxOps == 4
\* No node is handed to the collector while this many destructions wait.
MaxRetired == 4
\* Freed addresses whose memory is read before a further such read faults.
MaxWild == 1
\* Calls each thread of the one-value workload makes once the set is built.
MaxSame == 1

\* Buckets of the hash map (NUM_BUCKETS in the source).
NumBuckets == 2
\* The keys offered to the hash map are 1..MaxKey.
MaxKey == 3
\* The values stored in the hash map are 1..MaxHVal.
MaxHVal == 2
\* Addresses of the heap pool the hash nodes are allocated from.
NumHAddrs == 3
\* Calls of a freely chosen hash map program.
MaxHOps == 4
\* lock() / unlock() cycles a thread makes with one MCSNode.
MaxHold == 2

\* --------------------------------------------------------------- constants
\* ptr::null_mut()
Null == 0
\* Option::None in Node.value
None == 0

VARIABLES
  \* ---- FIFO queue: shared memory
  kind,      \* "atomic" (AtomicQueue) or "lockfree" (LockFreeQueue)
  head,      \* self.head
  tail,      \* self.tail
  mem,       \* heap: address -> Node {value, next}
  alloc,     \* addresses that hold a live Box<Node>
  \* ---- FIFO queue: threads
  work,      \* the workload: "spsc" or "mpmc"
  pc,        \* position of each thread in enqueue / dequeue
  plan,      \* values each thread still has to enqueue
  ndeq,      \* dequeue() calls each thread still has to make
  lnew,      \* enqueue: new_tail
  lh,        \* dequeue: head
  lt,        \* enqueue, dequeue: tail
  ln,        \* enqueue: next; dequeue: head_next / next
  lval,      \* dequeue: value
  crashed,   \* the process was killed (null dereference, heap corruption)
  \* ---- FIFO queue: history (not read by the program)
  absq,      \* the abstract FIFO queue, changed at the linearization points
  ncas,      \* number of successful CASes on head so far
  mycas,     \* dequeue: index of the call's successful head CAS, 0 if none
  myexp,     \* dequeue: front of absq at the call's successful head CAS
  emptySeen, \* dequeue: absq was empty at some instant of the call
  calm,      \* dequeue: the queue held no element at every instant of the call
  nsteps,    \* dequeue: own steps of the call so far
  wrote,     \* dequeue: the call changed head, tail, a node or the heap
  uaf,       \* some thread dereferenced an address that was not allocated
  hist,      \* completed dequeue calls of the threads (not those of drop)
  enqd,      \* values whose enqueue has linearized (successful CAS on tail.next)
  \* ---- FIFO queue: drop
  qdrop,     \* drop of the queue: "no", "run" (inside Drop::drop) or "done"
  ndrop,     \* drop: self.dequeue() calls made so far
  dres,      \* drop: what its last self.dequeue() returned
  badcas,    \* a CAS on head succeeded from or to something that is no node,
             \* or to a node that is not the successor of the old head
  took       \* dequeue: the current pass of the loop changed a node

qshared == <<kind, head, tail, mem, alloc>>
qlocal  == <<work, pc, plan, ndeq, lnew, lh, lt, ln, lval, crashed>>
qghost  == <<absq, ncas, mycas, myexp, emptySeen, calm, nsteps, wrote, uaf,
             hist, enqd>>
qdropv  == <<qdrop, ndrop, dres, badcas, took>>
qvars   == <<qshared, qlocal, qghost, qdropv>>

VARIABLES
  \* ---- ordered set: shared memory
  lhead,     \* self.head
  lmem,      \* heap: address -> Node {value, next, marked, version}
  lalloc,    \* addresses that hold a live node
  lhigh,     \* the addresses 1..lhigh have held a node
  retired,   \* destructions deferred to the epoch collector, oldest first
  \* ---- ordered set: threads
  lwork,     \* the workload: "script" (scenario S3), "order", "free",
             \* "pairs", "same", "reuse", "rem2" or "ins2"
  lpc,       \* position of each thread in insert / remove / contains / find
  lprog,     \* calls each thread still has to make
  lop,       \* the call in progress: [op, v]
  lprev,     \* find: prev, and the prev it returned
  lcurr,     \* find: curr, and the curr it returned
  lnext,     \* find, remove: next
  lnewn,     \* insert: new_node
  pinned,    \* the thread holds an epoch guard
  \* ---- ordered set: history (not read by the program)
  ldone,     \* completed calls of each thread, in order: [op, v, res, ..]
  lastOk,    \* per value: the last call on it that returned true
  luaf,      \* some thread dereferenced an address that was not allocated
  handed,    \* per address: times its node was handed to the collector
  linked,    \* live nodes a successful compare_exchange of insert linked
  reachDefer,\* find or remove handed over a node head still reached
  cwrote,    \* a contains call wrote to the list or handed a node over
  lleak,     \* insert abandoned a node without freeing it
  lover      \* per thread: its call overlaps a call of another thread

lshared == <<lhead, lmem, lalloc, retired>>
llocal  == <<lwork, lpc, lprog, lop, lprev, lcurr, lnext, lnewn, pinned>>
lmarks  == <<handed, linked, reachDefer, cwrote, lleak, lover>>
lghost  == <<ldone, lastOk, luaf, lmarks>>
lvars   == <<lshared, lhigh, llocal, lghost>>

VARIABLES
  \* ---- hash map: shared memory
  hbucket,   \* self.buckets[i].1: head of the chain of bucket i
  hmem,      \* heap: address -> HashNode {key, value, next}
  halloc,    \* addresses that hold a live Box<HashNode>
  hhigh,     \* the addresses 1..hhigh have held a node
  mtail,     \* self.buckets[i].0.tail: the MCSNode last swapped in
  mnext,     \* MCSNode.next of the node of each thread
  mlocked,   \* MCSNode.locked of the node of each thread
  \* ---- hash map: threads
  hwork,     \* the workload
  hpc,       \* position of each thread in insert / get / remove / lock / unlock
  hprog,     \* calls each thread still has to make
  hop,       \* the call in progress: [op, k, v]
  hnode,     \* insert: node
  hcur,      \* get, remove: current
  hprv,      \* remove: the node prev_ptr lies in, Null for the bucket head
  mprev,     \* lock: prev
  hres,      \* get: result; remove: removed_value
  \* ---- hash map: history (not read by the program)
  hlast,     \* per thread: its last completed call [op, k, v, res, ..];
             \* waited: lock() found a predecessor, passed: unlock() handed
             \* the lock to a successor
  hexp,      \* per thread: what the call in progress is expected to find
  hwrote,    \* per thread: the call in progress changed a chain or the heap
  href,      \* sequential reference map: key -> value or None
  hins,      \* key -> the value of an insert that has returned, None once a
             \* remove of the key was called
  huaf,      \* some thread dereferenced a hash node that was not allocated
  muaf,      \* some thread wrote to the MCSNode of a thread outside its call
  hord       \* per bucket: the threads that swapped tail and have not
             \* released the lock, in the order of their swaps

hshared == <<hbucket, hmem, halloc, hhigh, mtail, mnext, mlocked>>
hlocal  == <<hwork, hpc, hprog, hop, hnode, hcur, hprv, mprev, hres>>
hghost  == <<hlast, hexp, hwrote, href, hins, huaf, muaf, hord>>
hvars   == <<hshared, hlocal, hghost>>

vars == <<qvars, lvars, hvars>>

\* ------------------------------------------------------------------ heap
Addrs == 1..NumAddrs
Ptrs == Addrs \cup {Null}
Threads == {"p1", "p2", "c1", "c2"}

\* The k-th value of producer number i.
PlanOf(i, n) == [k \in 1..n |-> 10 * i + k]
\* The producer a value came from.
ProducerOf(v) == v \div 10

Workloads ==
  { [name |-> "spsc",
     plan |-> [t \in Threads |-> IF t = "p1" THEN PlanOf(1, MaxEnq) ELSE <<>>],
     ndeq |-> [t \in Threads |-> IF t = "c1" THEN MaxDeq + 1 ELSE 0]],
    [name |-> "mpmc",
     plan |-> [t \in Threads |-> IF t = "p1" THEN PlanOf(1, MaxEnqMP)
                                 ELSE IF t = "p2" THEN PlanOf(2, MaxEnqMP)
                                 ELSE <<>>],
     ndeq |-> [t \in Threads |-> IF t = "c1" THEN MaxDeq - 1
                                 ELSE IF t = "c2" THEN MaxDeq
                                 ELSE 0]] }

Values == UNION { {w.plan[t][k] : k \in DOMAIN w.plan[t]} : w \in Workloads, t \in Threads }

\* Memory of an address that holds no node.
Blank == [value |-> None, next |-> Null]

\* What a load of (*a).next can return: the field, or anything when a is dangling.
RdNext(a) == IF a \in alloc THEN {mem[a].next} ELSE Ptrs
\* What a read of (*a).value can return.
RdValue(a) == IF a \in alloc THEN {mem[a].value} ELSE Values \cup {None}

\* The queue holds no element: nothing is linked behind the node head points to.
QNoElement == head \in alloc /\ mem[head].next = Null

\* AtomicQueue::new() / LockFreeQueue::new(), and every thread outside a call.
QNew ==
  /\ head = 1 /\ tail = 1
  /\ alloc = {1}
  /\ mem = [a \in Addrs |-> Blank]
  /\ pc = [t \in Threads |-> "idle"]
  /\ lnew = [t \in Threads |-> Null]
  /\ lh = [t \in Threads |-> Null]
  /\ lt = [t \in Threads |-> Null]
  /\ ln = [t \in Threads |-> Null]
  /\ lval = [t \in Threads |-> None]
  /\ crashed = FALSE
  /\ absq = <<>>
  /\ ncas = 0
  /\ mycas = [t \in Threads |-> 0]
  /\ myexp = [t \in Threads |-> None]
  /\ emptySeen = [t \in Threads |-> FALSE]
  /\ calm = [t \in Threads |-> FALSE]
  /\ nsteps = [t \in Threads |-> 0]
  /\ wrote = [t \in Threads |-> FALSE]
  /\ uaf = FALSE
  /\ hist = {}
  /\ enqd = {}
  /\ qdrop = "no"
  /\ ndrop = 0
  /\ dres = None
  /\ badcas = FALSE
  /\ took = [t \in Threads |-> FALSE]

QInit ==
  /\ kind \in {"atomic", "lockfree"}
  /\ \E w \in Workloads : work = w.name /\ plan = w.plan /\ ndeq = w.ndeq
  /\ QNew

\* The queue of a run that only exercises the ordered set: built, never called.
QIdle ==
  /\ kind = "atomic"
  /\ work = "none"
  /\ plan = [t \in Threads |-> <<>>]
  /\ ndeq = [t \in Threads |-> 0]
  /\ QNew

\* ------------------------------------------------------- FIFO queue: steps
\* Positions inside dequeue().
DeqPcs == {"d_head", "d_tail", "d_next", "d_help", "d_rd", "d_wr", "d_cas", "d_free"}

\* compare_exchange(head, head_next) on self.head moves head from a node to
\* the node linked behind it.
HandOff(h, n) == h \in alloc /\ n \in alloc /\ mem[h].next = n

\* Bookkeeping of the history variables shared by every step of thread t
\* (the program's variables are primed by the step itself).
Tick(t) ==
  /\ UNCHANGED <<lvars, hvars>>
  /\ UNCHANGED <<qdrop, ndrop>>
  /\ dres' = IF qdrop = "run" /\ pc[t] \in DeqPcs /\ pc'[t] = "idle"
               THEN (IF pc[t] = "d_free" THEN lval[t] ELSE None)
               ELSE dres
  /\ badcas' = (badcas \/ (pc[t] = "d_cas" /\ head = lh[t] /\ ~HandOff(lh[t], ln[t])))
  /\ took' = [took EXCEPT ![t] = IF pc'[t] \in {"idle", "d_head"} THEN FALSE
                                  ELSE @ \/ (pc[t] \in DeqPcs /\ mem' # mem)]
  /\ emptySeen' = [u \in Threads |-> pc'[u] \in DeqPcs /\ (emptySeen[u] \/ absq' = <<>>)]
  /\ calm' = [u \in Threads |-> pc'[u] \in DeqPcs /\ calm[u] /\ QNoElement']
  /\ nsteps' = [u \in Threads |->
                  IF pc'[u] \notin DeqPcs THEN 0
                  ELSE IF u = t /\ nsteps[t] < StepCap THEN nsteps[t] + 1
                  ELSE nsteps[u]]
  /\ wrote' = [u \in Threads |->
                 IF pc'[u] \notin DeqPcs THEN FALSE
                 ELSE IF u = t
                   THEN wrote[t] \/ <<head, tail, mem, alloc>>' # <<head, tail, mem, alloc>>
                 ELSE wrote[u]]

\* The thread's locals once its call has returned.
Return(t) ==
  /\ pc' = [pc EXCEPT ![t] = "idle"]
  /\ lnew' = [lnew EXCEPT ![t] = Null]
  /\ lh' = [lh EXCEPT ![t] = Null]
  /\ lt' = [lt EXCEPT ![t] = Null]
  /\ ln' = [ln EXCEPT ![t] = Null]
  /\ lval' = [lval EXCEPT ![t] = None]
  /\ mycas' = [mycas EXCEPT ![t] = 0]
  /\ myexp' = [myexp EXCEPT ![t] = None]

\* The record of a dequeue call of thread t that returns v; w: its last step wrote.
Returned(t, v, w) ==
  [thr |-> t, cas |-> mycas[t], val |-> v, exp |-> myexp[t],
   empty |-> emptySeen[t], calm |-> calm[t],
   steps |-> IF nsteps[t] < StepCap THEN nsteps[t] + 1 ELSE StepCap,
   wrote |-> wrote[t] \/ w]

\* The history once a call with record r has returned.
Logged(r) == IF qdrop = "no" THEN hist \cup {r} ELSE hist

\* enqueue: let new_tail = Box::into_raw(Box::new(Node { value: Some(value), next: null }))
EnqAlloc(t) ==
  /\ ~crashed
  /\ pc[t] = "idle"
  /\ plan[t] # <<>>
  /\ \E a \in Addrs \ alloc :
       /\ alloc' = alloc \cup {a}
       /\ mem' = [mem EXCEPT ![a] = [value |-> Head(plan[t]), next |-> Null]]
       /\ lnew' = [lnew EXCEPT ![t] = a]
  /\ plan' = [plan EXCEPT ![t] = Tail(plan[t])]
  /\ pc' = [pc EXCEPT ![t] = "e_tail"]
  /\ UNCHANGED <<kind, head, tail, work, ndeq, lh, lt, ln, lval, crashed>>
  /\ UNCHANGED <<absq, ncas, mycas, myexp, uaf, hist, enqd>>
  /\ Tick(t)

\* enqueue: let tail = self.tail.load(Acquire)
EnqLoadTail(t) ==
  /\ ~crashed
  /\ pc[t] = "e_tail"
  /\ lt' = [lt EXCEPT ![t] = tail]
  /\ pc' = [pc EXCEPT ![t] = "e_cas"]
  /\ UNCHANGED <<qshared, work, plan, ndeq, lnew, lh, ln, lval, crashed>>
  /\ UNCHANGED <<absq, ncas, mycas, myexp, uaf, hist, enqd>>
  /\ Tick(t)

\* enqueue: (*tail).next.compare_exchange(null, new_tail)
EnqCasNext(t) ==
  /\ ~crashed
  /\ pc[t] = "e_cas"
  /\ LET a == lt[t]
         v == mem[lnew[t]].value
     IN
     IF a = Null
       THEN /\ crashed' = TRUE
            /\ UNCHANGED <<mem, pc, absq, enqd, uaf>>
     ELSE IF a \in alloc
       THEN /\ IF mem[a].next = Null
                 THEN /\ mem' = [mem EXCEPT ![a].next = lnew[t]]
                      /\ absq' = Append(absq, v)
                      /\ enqd' = enqd \cup {v}
                      /\ pc' = [pc EXCEPT ![t] = "e_swing"]
                 ELSE /\ pc' = [pc EXCEPT ![t] = "e_next"]
                      /\ UNCHANGED <<mem, absq, enqd>>
            /\ UNCHANGED <<crashed, uaf>>
     ELSE \* the CAS reads and writes memory that is no longer a node
          /\ uaf' = TRUE
          /\ \/ /\ absq' = Append(absq, v)
                /\ enqd' = enqd \cup {v}
                /\ pc' = [pc EXCEPT ![t] = "e_swing"]
             \/ /\ pc' = [pc EXCEPT ![t] = "e_next"]
                /\ UNCHANGED <<absq, enqd>>
          /\ UNCHANGED <<mem, crashed>>
  /\ UNCHANGED <<kind, head, tail, alloc, work, plan, ndeq, lnew, lh, lt, ln, lval>>
  /\ UNCHANGED <<ncas, mycas, myexp, hist>>
  /\ Tick(t)

\* enqueue: self.tail.compare_exchange(tail, new_tail).ok(); return
EnqSwingTail(t) ==
  /\ ~crashed
  /\ pc[t] = "e_swing"
  /\ tail' = IF tail = lt[t] THEN lnew[t] ELSE tail
  /\ Return(t)
  /\ UNCHANGED <<kind, head, mem, alloc, work, plan, ndeq, crashed>>
  /\ UNCHANGED <<absq, ncas, uaf, hist, enqd>>
  /\ Tick(t)

\* enqueue: let next = tail_next.load(Acquire)
EnqLoadNext(t) ==
  /\ ~crashed
  /\ pc[t] = "e_next"
  /\ \E n \in RdNext(lt[t]) : ln' = [ln EXCEPT ![t] = n]
  /\ uaf' = (uaf \/ lt[t] \notin alloc)
  /\ pc' = [pc EXCEPT ![t] = "e_help"]
  /\ UNCHANGED <<qshared, work, plan, ndeq, lnew, lh, lt, lval, crashed>>
  /\ UNCHANGED <<absq, ncas, mycas, myexp, hist, enqd>>
  /\ Tick(t)

\* enqueue: self.tail.compare_exchange(tail, next).ok(); loop again
EnqHelpTail(t) ==
  /\ ~crashed
  /\ pc[t] = "e_help"
  /\ tail' = IF tail = lt[t] THEN ln[t] ELSE tail
  /\ pc' = [pc EXCEPT ![t] = "e_tail"]
  /\ UNCHANGED <<kind, head, mem, alloc, work, plan, ndeq, lnew, lh, lt, ln, lval, crashed>>
  /\ UNCHANGED <<absq, ncas, mycas, myexp, uaf, hist, enqd>>
  /\ Tick(t)


\* dequeue: let head = self.head.load(Acquire), on entry and at the top of the loop
DeqLoadHead(t) ==
  /\ ~crashed
  /\ \/ /\ pc[t] = "idle"
        /\ ndeq[t] > 0
        /\ ndeq' = [ndeq EXCEPT ![t] = ndeq[t] - 1]
        /\ emptySeen' = [emptySeen EXCEPT ![t] = (absq = <<>>)]
        /\ calm' = [calm EXCEPT ![t] = QNoElement]
        /\ nsteps' = [nsteps EXCEPT ![t] = 1]
        /\ UNCHANGED wrote
     \/ /\ pc[t] = "d_head"
        /\ UNCHANGED <<ndeq, emptySeen, calm, wrote>>
        /\ nsteps' = [nsteps EXCEPT ![t] = IF @ < StepCap THEN @ + 1 ELSE @]
  /\ lh' = [lh EXCEPT ![t] = head]
  /\ pc' = [pc EXCEPT ![t] = "d_tail"]
  /\ UNCHANGED <<qshared, work, plan, lnew, lt, ln, lval, crashed>>
  /\ UNCHANGED <<absq, ncas, mycas, myexp, uaf, hist, enqd>>
  /\ UNCHANGED qdropv
  /\ UNCHANGED <<lvars, hvars>>

\* dequeue: let tail = self.tail.load(Acquire)
DeqLoadTail(t) ==
  /\ ~crashed
  /\ pc[t] = "d_tail"
  /\ lt' = [lt EXCEPT ![t] = tail]
  /\ pc' = [pc EXCEPT ![t] = "d_next"]
  /\ UNCHANGED <<qshared, work, plan, ndeq, lnew, lh, ln, lval, crashed>>
  /\ UNCHANGED <<absq, ncas, mycas, myexp, uaf, hist, enqd>>
  /\ Tick(t)

\* A dequeue that takes head == tail for an empty queue without looking at next.
DeqBranchNoHelp(k, h, tl, n) ==
  IF h = tl THEN "none"
  ELSE IF k = "atomic" THEN (IF n # Null THEN "d_rd" ELSE "d_head")
  ELSE "d_cas"

\* Where dequeue goes once it has head, tail and next: "none" stands for return None.
\* AtomicQueue: if head == tail { if head_next.is_null() {return None} help }
\*              else if !head_next.is_null() { take, CAS head }
\* LockFreeQueue: if head == tail { if next.is_null() {return None} help }
\*              else if CAS head { take }
DeqBranch(k, h, tl, n) ==
  IF h = tl
    THEN IF n = Null THEN "none" ELSE "d_help"
  ELSE IF k = "atomic"
    THEN IF n # Null THEN "d_rd" ELSE "d_head"
  ELSE "d_cas"

\* dequeue: let head_next = (*head).next.load(Acquire), and the branch on it
DeqLoadNext(t) ==
  /\ ~crashed
  /\ pc[t] = "d_next"
  /\ IF lh[t] = Null
       THEN /\ crashed' = TRUE
            /\ UNCHANGED <<pc, lnew, lh, lt, ln, lval, mycas, myexp, uaf, hist>>
       ELSE /\ uaf' = (uaf \/ lh[t] \notin alloc)
            /\ \E n \in RdNext(lh[t]) :
                 LET to == DeqBranch(kind, lh[t], lt[t], n) IN
                 IF to = "none"
                   THEN /\ hist' = Logged(Returned(t, None, FALSE))
                        /\ Return(t)
                   ELSE /\ ln' = [ln EXCEPT ![t] = n]
                        /\ pc' = [pc EXCEPT ![t] = to]
                        /\ UNCHANGED <<lnew, lh, lt, lval, mycas, myexp, hist>>
            /\ UNCHANGED crashed
  /\ UNCHANGED <<qshared, work, plan, ndeq>>
  /\ UNCHANGED <<absq, ncas, enqd>>
  /\ Tick(t)

\* dequeue: self.tail.compare_exchange(tail, head_next).ok(); loop again
DeqHelpTail(t) ==
  /\ ~crashed
  /\ pc[t] = "d_help"
  /\ tail' = IF tail = lt[t] THEN ln[t] ELSE tail
  /\ pc' = [pc EXCEPT ![t] = "d_head"]
  /\ UNCHANGED <<kind, head, mem, alloc, work, plan, ndeq, lnew, lh, lt, ln, lval, crashed>>
  /\ UNCHANGED <<absq, ncas, mycas, myexp, uaf, hist, enqd>>
  /\ Tick(t)

\* dequeue: next.value.take(), its read of the Option
DeqTakeRead(t) ==
  /\ ~crashed
  /\ pc[t] = "d_rd"
  /\ IF ln[t] = Null
       THEN /\ crashed' = TRUE
            /\ UNCHANGED <<pc, lval, uaf>>
       ELSE /\ \E v \in RdValue(ln[t]) : lval' = [lval EXCEPT ![t] = v]
            /\ uaf' = (uaf \/ ln[t] \notin alloc)
            /\ pc' = [pc EXCEPT ![t] = "d_wr"]
            /\ UNCHANGED crashed
  /\ UNCHANGED <<qshared, work, plan, ndeq, lnew, lh, lt, ln>>
  /\ UNCHANGED <<absq, ncas, mycas, myexp, hist, enqd>>
  /\ Tick(t)

\* dequeue: next.value.take(), its write of None
DeqTakeWrite(t) ==
  /\ ~crashed
  /\ pc[t] = "d_wr"
  /\ mem' = IF ln[t] \in alloc THEN [mem EXCEPT ![ln[t]].value = None] ELSE mem
  /\ uaf' = (uaf \/ ln[t] \notin alloc)
  /\ pc' = [pc EXCEPT ![t] = IF kind = "atomic" THEN "d_cas" ELSE "d_free"]
  /\ UNCHANGED <<kind, head, tail, alloc, work, plan, ndeq, lnew, lh, lt, ln, lval, crashed>>
  /\ UNCHANGED <<absq, ncas, mycas, myexp, hist, enqd>>
  /\ Tick(t)

\* dequeue: self.head.compare_exchange(head, head_next)
DeqCasHead(t) ==
  /\ ~crashed
  /\ pc[t] = "d_cas"
  /\ IF head = lh[t]
       THEN /\ head' = ln[t]
            /\ ncas' = ncas + 1
            /\ mycas' = [mycas EXCEPT ![t] = ncas + 1]
            /\ myexp' = [myexp EXCEPT ![t] = IF absq = <<>> THEN None ELSE Head(absq)]
            /\ absq' = IF absq = <<>> THEN absq ELSE Tail(absq)
            /\ pc' = [pc EXCEPT ![t] = IF kind = "atomic" THEN "d_free" ELSE "d_rd"]
            /\ UNCHANGED lval
       ELSE /\ pc' = [pc EXCEPT ![t] = "d_head"]
            /\ lval' = [lval EXCEPT ![t] = None]
            /\ UNCHANGED <<head, ncas, mycas, myexp, absq>>
  /\ UNCHANGED <<kind, tail, mem, alloc, work, plan, ndeq, lnew, lh, lt, ln, crashed>>
  /\ UNCHANGED <<uaf, hist, enqd>>
  /\ Tick(t)

\* dequeue: drop(Box::from_raw(head)); return value
DeqFree(t) ==
  /\ ~crashed
  /\ pc[t] = "d_free"
  /\ IF lh[t] \in alloc
       THEN /\ alloc' = alloc \ {lh[t]}
            /\ mem' = [mem EXCEPT ![lh[t]] = Blank]
            /\ UNCHANGED <<crashed, uaf>>
       ELSE \* a second free of the address: the allocator aborts or carries on
            /\ uaf' = TRUE
            /\ crashed' \in BOOLEAN
            /\ UNCHANGED <<alloc, mem>>
  /\ hist' = Logged(Returned(t, lval[t], TRUE))
  /\ Return(t)
  /\ UNCHANGED <<kind, head, tail, work, plan, ndeq>>
  /\ UNCHANGED <<absq, ncas, enqd>>
  /\ Tick(t)

QNext ==
  \E t \in Threads :
    \/ EnqAlloc(t) \/ EnqLoadTail(t) \/ EnqCasNext(t) \/ EnqSwingTail(t)
    \/ EnqLoadNext(t) \/ EnqHelpTail(t)
    \/ DeqLoadHead(t) \/ DeqLoadTail(t) \/ DeqLoadNext(t)
    \/ DeqHelpTail(t) \/ DeqTakeRead(t) \/ DeqTakeWrite(t) \/ DeqCasHead(t)
    \/ DeqFree(t)

\* ------------------------------------------------------- FIFO queue: drop
\* The workload of a queue that is dropped: two producers of MaxEnqMP values
\* each, and a consumer that leaves values behind.
DropLoad ==
  [name |-> "drop",
   plan |-> [t \in Threads |-> IF t = "p1" THEN PlanOf(1, MaxEnqMP)
                               ELSE IF t = "p2" THEN PlanOf(2, MaxEnqMP)
                               ELSE <<>>],
   ndeq |-> [t \in Threads |-> IF t = "c1" THEN MaxDeq - 1 ELSE 0]]

\* Every thread has made all its calls; the owner may drop the queue.
QQuiet ==
  /\ ~crashed
  /\ \A t \in Threads : pc[t] = "idle" /\ plan[t] = <<>> /\ ndeq[t] = 0

\* What a drop step leaves alone.
DropFrame ==
  /\ UNCHANGED <<kind, head, tail, work, pc, plan, lnew, lh, lt, ln, lval>>
  /\ UNCHANGED <<qghost, badcas, took>>
  /\ UNCHANGED <<lvars, hvars>>

\* Drop for AtomicQueue: while self.dequeue().is_some() {}, one call of it.
\* The call is made by thread t, the owner of the queue.
DropDequeue(t) ==
  /\ kind = "atomic"
  /\ QQuiet
  /\ \/ qdrop = "no"
     \/ qdrop = "run" /\ dres # None
  /\ ndrop < MaxDrop
  /\ qdrop' = "run"
  /\ ndrop' = ndrop + 1
  /\ ndeq' = [ndeq EXCEPT ![t] = 1]
  /\ UNCHANGED <<mem, alloc, crashed, dres>>
  /\ DropFrame

\* Drop for AtomicQueue: the loop has ended;
\* let dummy = self.head.load(Relaxed); drop(Box::from_raw(dummy))
DropFree ==
  /\ kind = "atomic"
  /\ QQuiet
  /\ qdrop = "run" /\ dres = None
  /\ qdrop' = "done"
  /\ IF head \in alloc
       THEN /\ alloc' = alloc \ {head}
            /\ mem' = [mem EXCEPT ![head] = Blank]
            /\ UNCHANGED crashed
       ELSE \* a second free of the address: the allocator aborts or carries on
            /\ crashed' \in BOOLEAN
            /\ UNCHANGED <<alloc, mem>>
  /\ UNCHANGED <<ndeq, ndrop, dres>>
  /\ DropFrame

\* LockFreeQueue has no Drop: dropping it drops two AtomicPtr fields, which
\* frees nothing.
DropFields ==
  /\ kind = "lockfree"
  /\ QQuiet
  /\ qdrop = "no"
  /\ qdrop' = "done"
  /\ UNCHANGED <<mem, alloc, crashed, ndeq, ndrop, dres>>
  /\ DropFrame

DropNext == QNext \/ DropDequeue("c1") \/ DropFree \/ DropFields

\* ------------------------------------------------------- ordered set: heap
LAddrs == 1..NumLAddrs
LPtrs == LAddrs \cup {Null}
LVals == 1..MaxVal
\* The threads of the list workloads; t1 alone runs the sequential ones.
LThreads == {"t1", "t2"}

LCallOf(o, v) == [op |-> o, v |-> v]
LCalls == {LCallOf(o, v) : o \in {"insert", "remove", "contains"}, v \in LVals}
\* No call in progress.
NoCall == LCallOf("none", 0)

\* Scenario S3 on the value v.
S3Script(v) ==
  << LCallOf("insert", v), LCallOf("insert", v), LCallOf("contains", v),
     LCallOf("remove", v), LCallOf("contains", v), LCallOf("remove", v) >>
\* A call the caller chooses when it makes it.
AnyCall == LCallOf("any", 0)
\* MaxOps calls of the caller's choice.
FreeProg == [k \in 1..MaxOps |-> AnyCall]
\* The calls the next entry c of a program stands for: op "any" leaves the
\* operation to the caller, and with v = 0 the value too.
CallsOf(c) ==
  IF c.op = "any"
    THEN {LCallOf(o, v) : o \in {"insert", "remove", "contains"},
                          v \in IF c.v = 0 THEN LVals ELSE {c.v}}
    ELSE {c}

\* insert(3), insert(1), insert(2) on a new set.
OrderScript ==
  << LCallOf("insert", 3), LCallOf("insert", 1), LCallOf("insert", 2) >>
\* tests::test_concurrent_operations, the body of thread i.
PairScript(i) ==
  << LCallOf("insert", i), LCallOf("contains", i),
     LCallOf("remove", i), LCallOf("contains", i) >>
\* n calls of the caller's choice, all on the value v.
SameProg(v, n) == [k \in 1..n |-> LCallOf("any", v)]
\* The thread is spawned once t1 has completed k calls.
AwaitOf(k) == LCallOf("await", k)
\* Calls that build a set: {1}, {1, 2}, and {2} with the removed 1 before it.
BuildOne == <<LCallOf("insert", 1)>>
BuildTwo == <<LCallOf("insert", 1), LCallOf("insert", 2)>>
BuildCut == BuildTwo \o <<LCallOf("remove", 1)>>
\* On a set found empty, both values are inserted and removed, the lower one
\* first, and the higher one is inserted again.
ReuseScript ==
  <<LCallOf("contains", 2)>> \o BuildCut
    \o <<LCallOf("remove", 2), LCallOf("insert", 2)>>
\* The sets the concurrent removes start from, as the calls that build them,
\* and the value v, held once, that the removes are after.
RemSetups ==
  { [build |-> BuildOne, v |-> 1], [build |-> BuildTwo, v |-> 1],
    [build |-> BuildTwo, v |-> 2], [build |-> BuildCut, v |-> 2] }
\* The sets the concurrent inserts start from, none of which holds the value v
\* that both threads insert: the new set, a set with a lower value, and the
\* sets an insert and a remove of one value leave.
InsSetups ==
  { [build |-> <<>>, v |-> 1], [build |-> BuildOne, v |-> 2],
    [build |-> <<LCallOf("insert", 1), LCallOf("remove", 1)>>, v |-> 1],
    [build |-> <<LCallOf("insert", 1), LCallOf("remove", 1)>>, v |-> 2] }
\* The values a program can name.
LKeys == LVals \cup {OrderScript[k].v : k \in DOMAIN OrderScript}
\* The sets the one-value workload starts from, and the value v its calls
\* are on: the new set, and the set the remove of the first of two values
\* leaves.
SameSetups ==
  { [build |-> <<>>, v |-> 1], [build |-> BuildCut, v |-> 2] }
\* The programs of a run: t1 makes the calls p1, t2 the calls p2.
Duo(p1, p2) == [t \in LThreads |-> IF t = "t1" THEN p1 ELSE p2]

\* Node::new(&value)
NewNode(v) == [value |-> v, next |-> Null, marked |-> FALSE, version |-> 0]
\* Memory of an address that holds no node.
LBlank == [value |-> 0, next |-> Null, marked |-> FALSE, version |-> 0]

\* The freed addresses whose memory a thread has read.
Wild == {a \in LAddrs \ lalloc : lmem[a] # LBlank}
\* What the loads of the fields of *a can return: the node, or, when a is
\* dangling, whatever the freed memory holds: anything at the first load, and
\* what that load saw from then on. The load faults, and the thread stops,
\* when MaxWild freed addresses have been read already.
LNode(a) ==
  IF a \in lalloc \/ lmem[a] # LBlank THEN {lmem[a]}
  ELSE IF Cardinality(Wild) < MaxWild
    THEN [value : LVals, next : LPtrs, marked : BOOLEAN, version : {0}]
  ELSE {}
\* The heap once a load of *a has returned n.
Seen(a, n) == IF a \in lalloc THEN lmem ELSE [lmem EXCEPT ![a] = n]

RECURSIVE LChainOf(_, _, _, _)
\* The addresses reached from h along next in the heap m with live nodes al,
\* h first, at most k of them.
LChainOf(h, m, al, k) ==
  IF h = Null \/ h \notin al \/ k = 0 THEN <<>>
  ELSE <<h>> \o LChainOf(m[h].next, m, al, k - 1)
\* The nodes reached from self.head, in next order.
LChain == LChainOf(lhead, lmem, lalloc, NumLAddrs)
\* The nodes reached from self.head.
LReach == {LChain[i] : i \in DOMAIN LChain}
\* head h still reaches the node at a in the heap m.
StillReached(a, h, m) ==
  \E i \in DOMAIN LChainOf(h, m, lalloc, NumLAddrs) :
    LChainOf(h, m, lalloc, NumLAddrs)[i] = a
\* One more hand-over of the node at a to the collector.
Bump(hd, a) == [hd EXCEPT ![a] = IF @ < 2 THEN @ + 1 ELSE @]

\* The addresses Box::new can return: one that was freed, or the first of
\* those never used, which stands for all of them.
FreeAddrs == {a \in LAddrs \ lalloc : a <= lhigh + 1}
\* The addresses that have held a node once a is allocated.
HighWith(a) == IF a > lhigh THEN a ELSE lhigh

\* The threads that hold a guard.
Pinned == {u \in LThreads : pinned[u]}
\* guard.defer(..) / guard.defer_destroy(a): the destruction of a waits for
\* every guard that is held now.
Defer(rs, a) == Append(rs, [addr |-> a, waits |-> Pinned])
\* Dropping t's guard.
Unpin(rs, t) == [i \in DOMAIN rs |-> [rs[i] EXCEPT !.waits = @ \ {t}]]
\* The sequence s without its i-th element.
DropAt(s, i) == [j \in 1..(Len(s) - 1) |-> IF j < i THEN s[j] ELSE s[j + 1]]

\* LockFreeList::new(), and every thread outside a call.
LNew ==
  /\ lhead = Null
  /\ lmem = [a \in LAddrs |-> LBlank]
  /\ lalloc = {}
  /\ lhigh = 0
  /\ retired = <<>>
  /\ lpc = [t \in LThreads |-> "idle"]
  /\ lop = [t \in LThreads |-> NoCall]
  /\ lprev = [t \in LThreads |-> Null]
  /\ lcurr = [t \in LThreads |-> Null]
  /\ lnext = [t \in LThreads |-> Null]
  /\ lnewn = [t \in LThreads |-> Null]
  /\ pinned = [t \in LThreads |-> FALSE]
  /\ ldone = [t \in LThreads |-> <<>>]
  /\ lastOk = [v \in LKeys |-> "none"]
  /\ luaf = FALSE
  /\ handed = [a \in LAddrs |-> 0]
  /\ linked = {}
  /\ reachDefer = FALSE
  /\ cwrote = FALSE
  /\ lleak = FALSE
  /\ lover = [t \in LThreads |-> FALSE]

LInit ==
  /\ \/ /\ lwork = "script"
        /\ \E v \in LVals : lprog = Duo(S3Script(v), <<>>)
     \/ /\ lwork = "order"
        /\ lprog = Duo(OrderScript, <<>>)
     \/ /\ lwork = "free"
        /\ lprog = Duo(FreeProg, <<>>)
     \/ /\ lwork = "pairs"
        /\ lprog = Duo(PairScript(1), <<AwaitOf(0)>> \o PairScript(2))
     \/ /\ lwork = "same"
        /\ \E s \in SameSetups :
             lprog = Duo(s.build \o SameProg(s.v, MaxSame),
                         <<AwaitOf(Len(s.build))>> \o SameProg(s.v, MaxSame))
     \/ /\ lwork = "reuse"
        /\ lprog = Duo(ReuseScript,
                        <<AwaitOf(Len(ReuseScript) - 1), LCallOf("insert", 2)>>)
     \/ /\ lwork = "rem2"
        /\ \E s \in RemSetups :
             lprog = Duo(s.build \o <<LCallOf("remove", s.v)>>,
                         <<AwaitOf(Len(s.build)), LCallOf("remove", s.v)>>)
     \/ /\ lwork = "ins2"
        /\ \E s \in InsSetups :
             lprog = Duo(s.build \o <<LCallOf("insert", s.v)>>,
                         <<AwaitOf(Len(s.build)), LCallOf("insert", s.v)>>)
  /\ LNew

\* The list of a run that only exercises the queues: built, never called.
LIdle ==
  /\ lwork = "none"
  /\ lprog = [t \in LThreads |-> <<>>]
  /\ LNew

\* ------------------------------------------------------ ordered set: steps
\* The comparison of find: curr_ref.value >= *value
ReachedStrict(cv, v) == cv > v
Reached(cv, v) == cv >= v

\* Where a call goes on when find returns.
AfterFind(o) ==
  CASE o = "insert" -> "i_chk"
    [] o = "remove" -> "r_chk"
    [] OTHER -> "c_chk"

\* A thread is inside insert, remove or contains.
InCall(t) == lpc[t] \notin {"idle", "d_walk", "gone"}

\* contains answers res = true with a node that, when contains read it, was
\* no longer reached from head or was already handed to the collector.
StaleHit(t, res) ==
  /\ res
  /\ lop[t].op = "contains"
  /\ (lcurr[t] \notin LReach \/ handed[lcurr[t]] > 0)

\* t's call returns res: the guard is dropped, the locals die.
LReturn(t, res) ==
  /\ ldone' = [ldone EXCEPT ![t] =
        Append(@, [op |-> lop[t].op, v |-> lop[t].v, res |-> res,
                   ref |-> (lastOk[lop[t].v] = "insert"),
                   conc |-> lover[t],
                   stale |-> StaleHit(t, res)])]
  /\ lastOk' = IF res /\ lop[t].op \in {"insert", "remove"}
                 THEN [lastOk EXCEPT ![lop[t].v] = lop[t].op]
                 ELSE lastOk
  /\ pinned' = [pinned EXCEPT ![t] = FALSE]
  /\ lpc' = [lpc EXCEPT ![t] = "idle"]
  /\ lop' = [lop EXCEPT ![t] = NoCall]
  /\ lprev' = [lprev EXCEPT ![t] = Null]
  /\ lcurr' = [lcurr EXCEPT ![t] = Null]
  /\ lnext' = [lnext EXCEPT ![t] = Null]
  /\ lnewn' = [lnewn EXCEPT ![t] = Null]

\* insert / remove / contains: let guard = &epoch::pin();
\* insert also: let mut new_node = Node::new(&value);
LCall(t) ==
  /\ lpc[t] = "idle"
  /\ lprog[t] # <<>>
  /\ Head(lprog[t]).op # "await"
  /\ \E c \in CallsOf(Head(lprog[t])) :
       /\ lop' = [lop EXCEPT ![t] = c]
       /\ IF c.op = "insert"
            THEN \E a \in FreeAddrs :
                   /\ lalloc' = lalloc \cup {a}
                   /\ lhigh' = HighWith(a)
                   /\ lmem' = [lmem EXCEPT ![a] = NewNode(c.v)]
                   /\ lnewn' = [lnewn EXCEPT ![t] = a]
            ELSE UNCHANGED <<lalloc, lhigh, lmem, lnewn>>
  /\ lprog' = [lprog EXCEPT ![t] = Tail(lprog[t])]
  /\ pinned' = [pinned EXCEPT ![t] = TRUE]
  /\ lpc' = [lpc EXCEPT ![t] = "f_head"]
  /\ lover' = [u \in LThreads |->
        IF u = t THEN \E w \in LThreads \ {t} : InCall(w)
        ELSE lover[u] \/ InCall(u)]
  /\ UNCHANGED <<lhead, retired, lwork, lprev, lcurr, lnext>>
  /\ UNCHANGED <<ldone, lastOk, luaf, handed, linked, reachDefer, cwrote, lleak>>
  /\ UNCHANGED <<qvars, hvars>>

\* find: let mut prev = self.head.load(Acquire); let mut curr = prev;
FindLoadHead(t) ==
  /\ lpc[t] = "f_head"
  /\ lprev' = [lprev EXCEPT ![t] = lhead]
  /\ lcurr' = [lcurr EXCEPT ![t] = lhead]
  /\ lpc' = [lpc EXCEPT ![t] = "f_loop"]
  /\ UNCHANGED <<lshared, lwork, lprog, lop, lnext, lnewn, pinned, lghost>>
  /\ UNCHANGED lhigh
  /\ UNCHANGED <<qvars, hvars>>

\* find: while let Some(curr_ref) = curr.as_ref() { let next = curr_ref.next.load(Acquire);
\*       and, when curr is null, return (prev, Shared::null())
FindLoadNext(t) ==
  /\ lpc[t] = "f_loop"
  /\ IF lcurr[t] = Null
       THEN /\ lpc' = [lpc EXCEPT ![t] = AfterFind(lop[t].op)]
            /\ UNCHANGED <<lnext, luaf, lmem>>
       ELSE /\ \E n \in LNode(lcurr[t]) :
                 /\ lnext' = [lnext EXCEPT ![t] = n.next]
                 /\ lmem' = Seen(lcurr[t], n)
            /\ luaf' = (luaf \/ lcurr[t] \notin lalloc)
            /\ lpc' = [lpc EXCEPT ![t] = "f_mark"]
  /\ UNCHANGED <<lhead, lalloc, retired>>
  /\ UNCHANGED <<lwork, lprog, lop, lprev, lcurr, lnewn, pinned>>
  /\ UNCHANGED <<ldone, lastOk>>
  /\ UNCHANGED lmarks
  /\ UNCHANGED lhigh
  /\ UNCHANGED <<qvars, hvars>>

\* find: if curr_ref.marked.load(Acquire) { .. }
\*       if curr_ref.value >= *value { return (prev, curr); }
\*       prev = curr; curr = next;
FindCheck(t) ==
  /\ lpc[t] = "f_mark"
  /\ \E n \in LNode(lcurr[t]) :
       /\ lmem' = Seen(lcurr[t], n)
       /\ IF n.marked
            THEN /\ lpc' = [lpc EXCEPT ![t] = "f_unlink"]
                 /\ UNCHANGED <<lprev, lcurr>>
          ELSE IF Reached(n.value, lop[t].v)
            THEN /\ lpc' = [lpc EXCEPT ![t] = AfterFind(lop[t].op)]
                 /\ UNCHANGED <<lprev, lcurr>>
          ELSE /\ lprev' = [lprev EXCEPT ![t] = lcurr[t]]
               /\ lcurr' = [lcurr EXCEPT ![t] = lnext[t]]
               /\ lpc' = [lpc EXCEPT ![t] = "f_loop"]
  /\ luaf' = (luaf \/ lcurr[t] \notin lalloc)
  /\ UNCHANGED <<lhead, lalloc, retired>>
  /\ UNCHANGED <<lwork, lprog, lop, lnext, lnewn, pinned>>
  /\ UNCHANGED <<ldone, lastOk>>
  /\ UNCHANGED lmarks
  /\ UNCHANGED lhigh
  /\ UNCHANGED <<qvars, hvars>>

\* find: the compare_exchange that unlinks the marked curr, on self.head when
\*       prev == curr and on prev.next otherwise; on success the node is
\*       handed to guard.defer and curr = next, on failure the loop is left
\*       and find returns (prev, Shared::null()).
FindUnlink(t) ==
  /\ lpc[t] = "f_unlink"
  /\ \E ok \in BOOLEAN :
       /\ IF lprev[t] = lcurr[t]
            THEN /\ ok = (lhead = lcurr[t])
                 /\ lhead' = IF ok THEN lnext[t] ELSE lhead
                 /\ UNCHANGED <<lmem, luaf>>
          ELSE IF lprev[t] \in lalloc
            THEN /\ ok = (lmem[lprev[t]].next = lcurr[t])
                 /\ lmem' = IF ok THEN [lmem EXCEPT ![lprev[t]].next = lnext[t]]
                                  ELSE lmem
                 /\ UNCHANGED <<lhead, luaf>>
          ELSE /\ luaf' = TRUE
               /\ UNCHANGED <<lhead, lmem>>
       /\ IF ok
            THEN /\ retired' = Defer(retired, lcurr[t])
                 /\ lcurr' = [lcurr EXCEPT ![t] = lnext[t]]
                 /\ lpc' = [lpc EXCEPT ![t] = "f_loop"]
            ELSE /\ lcurr' = [lcurr EXCEPT ![t] = Null]
                 /\ lpc' = [lpc EXCEPT ![t] = AfterFind(lop[t].op)]
                 /\ UNCHANGED retired
       /\ ok => Len(retired) < MaxRetired
       /\ handed' = IF ok THEN Bump(handed, lcurr[t]) ELSE handed
       /\ cwrote' = (cwrote \/ (ok /\ lop[t].op = "contains"))
       /\ reachDefer' = (reachDefer \/ (ok /\ StillReached(lcurr[t], lhead', lmem')))
  /\ UNCHANGED <<lalloc, lwork, lprog, lop, lprev, lnext, lnewn, pinned>>
  /\ UNCHANGED <<ldone, lastOk, linked, lleak, lover>>
  /\ UNCHANGED lhigh
  /\ UNCHANGED <<qvars, hvars>>

\* insert: curr_ref.value == value && !curr_ref.marked.load(Acquire)
IsDup(n, v) == n.value = v /\ ~n.marked

\* insert: if !curr.is_null() { if curr_ref.value == value
\*         && !curr_ref.marked.load(Acquire) { return false; } }
\*         (the Owned new_node is dropped by the return)
InsertCheck(t) ==
  /\ lpc[t] = "i_chk"
  /\ IF lcurr[t] = Null
       THEN /\ lpc' = [lpc EXCEPT ![t] = "i_cas"]
            /\ UNCHANGED <<lmem, lalloc, retired, lop, lprev, lcurr, lnext,
                           lnewn, pinned, ldone, lastOk, luaf>>
       ELSE \E n \in LNode(lcurr[t]) :
              /\ luaf' = (luaf \/ lcurr[t] \notin lalloc)
              /\ IF IsDup(n, lop[t].v)
                   THEN /\ lalloc' = lalloc \ {lnewn[t]}
                        /\ lmem' = [Seen(lcurr[t], n) EXCEPT ![lnewn[t]] = LBlank]
                        /\ retired' = Unpin(retired, t)
                        /\ LReturn(t, FALSE)
                   ELSE /\ lpc' = [lpc EXCEPT ![t] = "i_cas"]
                        /\ lmem' = Seen(lcurr[t], n)
                        /\ UNCHANGED <<lalloc, retired, lop, lprev, lcurr,
                                       lnext, lnewn, pinned, ldone, lastOk>>
  /\ UNCHANGED <<lhead, lwork, lprog>>
  /\ UNCHANGED lmarks
  /\ UNCHANGED lhigh
  /\ UNCHANGED <<qvars, hvars>>

\* insert: new_node.next.store(curr, Relaxed);
\*         the compare_exchange of curr for the new node, on self.head when
\*         prev is null and on prev.next otherwise;
\*         Ok => return true, Err => new_node = Node::new(&value) and retry.
\*         The node that was not linked is not freed (lleak); no pointer to
\*         it is left anywhere, so it is dropped from the heap of the model
\*         and its address stands for a fresh one.
InsertCas(t) ==
  /\ lpc[t] = "i_cas"
  /\ \E ok \in BOOLEAN :
       /\ IF lprev[t] = Null
            THEN /\ ok = (lhead = lcurr[t])
                 /\ lhead' = IF ok THEN lnewn[t] ELSE lhead
                 /\ UNCHANGED luaf
          ELSE IF lprev[t] \in lalloc
            THEN /\ ok = (lmem[lprev[t]].next = lcurr[t])
                 /\ UNCHANGED <<lhead, luaf>>
          ELSE /\ luaf' = TRUE
               /\ UNCHANGED lhead
       /\ IF ok
            THEN /\ lmem' = [a \in LAddrs |->
                      IF a = lnewn[t] THEN [lmem[a] EXCEPT !.next = lcurr[t]]
                      ELSE IF a = lprev[t] /\ a \in lalloc
                        THEN [lmem[a] EXCEPT !.next = lnewn[t]]
                      ELSE lmem[a]]
                 /\ retired' = Unpin(retired, t)
                 /\ LReturn(t, TRUE)
                 /\ linked' = linked \cup {lnewn[t]}
                 /\ UNCHANGED <<lalloc, lhigh, lleak>>
            ELSE \E a \in FreeAddrs \cup {lnewn[t]} :
                   /\ lalloc' = lalloc \cup {a}
                   /\ lhigh' = HighWith(a)
                   /\ lmem' = [b \in LAddrs |->
                        IF b = a THEN NewNode(lop[t].v)
                        ELSE IF b = lnewn[t] THEN LBlank
                        ELSE lmem[b]]
                   /\ lnewn' = [lnewn EXCEPT ![t] = a]
                   /\ lpc' = [lpc EXCEPT ![t] = "f_head"]
                   /\ lleak' = TRUE
                   /\ UNCHANGED <<retired, lop, lprev, lcurr, lnext, pinned,
                                  ldone, lastOk, linked>>
  /\ UNCHANGED <<lwork, lprog, handed, reachDefer, cwrote, lover>>
  /\ UNCHANGED <<qvars, hvars>>

\* remove: if curr.is_null() { return false; }
\*         if curr_ref.value != *value || curr_ref.marked.load(Acquire) { return false; }
RemoveCheck(t) ==
  /\ lpc[t] = "r_chk"
  /\ IF lcurr[t] = Null
       THEN /\ retired' = Unpin(retired, t)
            /\ LReturn(t, FALSE)
            /\ UNCHANGED <<luaf, lmem>>
       ELSE \E n \in LNode(lcurr[t]) :
              /\ luaf' = (luaf \/ lcurr[t] \notin lalloc)
              /\ lmem' = Seen(lcurr[t], n)
              /\ IF n.value # lop[t].v \/ n.marked
                   THEN /\ retired' = Unpin(retired, t)
                        /\ LReturn(t, FALSE)
                   ELSE /\ lpc' = [lpc EXCEPT ![t] = "r_next"]
                        /\ UNCHANGED <<retired, lop, lprev, lcurr, lnext, lnewn,
                                       pinned, ldone, lastOk>>
  /\ UNCHANGED <<lhead, lalloc, lwork, lprog>>
  /\ UNCHANGED lmarks
  /\ UNCHANGED lhigh
  /\ UNCHANGED <<qvars, hvars>>

\* remove: let next = curr_ref.next.load(Acquire);
RemoveLoadNext(t) ==
  /\ lpc[t] = "r_next"
  /\ \E n \in LNode(lcurr[t]) :
       /\ lnext' = [lnext EXCEPT ![t] = n.next]
       /\ lmem' = Seen(lcurr[t], n)
  /\ luaf' = (luaf \/ lcurr[t] \notin lalloc)
  /\ lpc' = [lpc EXCEPT ![t] = "r_mark"]
  /\ UNCHANGED <<lhead, lalloc, retired>>
  /\ UNCHANGED <<lwork, lprog, lop, lprev, lcurr, lnewn, pinned>>
  /\ UNCHANGED <<ldone, lastOk>>
  /\ UNCHANGED lmarks
  /\ UNCHANGED lhigh
  /\ UNCHANGED <<qvars, hvars>>

\* remove: whether marked.compare_exchange(false, true, ..) succeeds on the
\*         value m of marked
MarkWon(m) == ~m

\* remove: if curr_ref.marked.compare_exchange(false, true, ..).is_err() { continue; }
RemoveMark(t) ==
  /\ lpc[t] = "r_mark"
  /\ \E ok \in BOOLEAN :
       /\ IF lcurr[t] \in lalloc
            THEN /\ ok = MarkWon(lmem[lcurr[t]].marked)
                 /\ lmem' = [lmem EXCEPT ![lcurr[t]].marked = TRUE]
                 /\ UNCHANGED luaf
            ELSE /\ luaf' = TRUE
                 /\ UNCHANGED lmem
       /\ lpc' = [lpc EXCEPT ![t] = IF ok THEN "r_ver" ELSE "f_head"]
  /\ UNCHANGED <<lhead, lalloc, retired>>
  /\ UNCHANGED <<lwork, lprog, lop, lprev, lcurr, lnext, lnewn, pinned>>
  /\ UNCHANGED <<ldone, lastOk>>
  /\ UNCHANGED lmarks
  /\ UNCHANGED lhigh
  /\ UNCHANGED <<qvars, hvars>>

\* remove: curr_ref.version.fetch_add(1, SeqCst);
RemoveVersion(t) ==
  /\ lpc[t] = "r_ver"
  /\ IF lcurr[t] \in lalloc
       THEN /\ lmem' = [lmem EXCEPT ![lcurr[t]].version = @ + 1]
            /\ UNCHANGED luaf
       ELSE /\ luaf' = TRUE
            /\ UNCHANGED lmem
  /\ lpc' = [lpc EXCEPT ![t] = "r_cas"]
  /\ UNCHANGED <<lhead, lalloc, retired>>
  /\ UNCHANGED <<lwork, lprog, lop, lprev, lcurr, lnext, lnewn, pinned>>
  /\ UNCHANGED <<ldone, lastOk>>
  /\ UNCHANGED lmarks
  /\ UNCHANGED lhigh
  /\ UNCHANGED <<qvars, hvars>>

\* remove: the compare_exchange of curr for next, on self.head when prev is
\*         null and on prev.next otherwise;
\*         if res.is_ok() { guard.defer_destroy(curr); }
RemoveUnlink(t) ==
  /\ lpc[t] = "r_cas"
  /\ \E ok \in BOOLEAN :
       /\ IF lprev[t] = Null
            THEN /\ ok = (lhead = lcurr[t])
                 /\ lhead' = IF ok THEN lnext[t] ELSE lhead
                 /\ UNCHANGED <<lmem, luaf>>
          ELSE IF lprev[t] \in lalloc
            THEN /\ ok = (lmem[lprev[t]].next = lcurr[t])
                 /\ lmem' = IF ok THEN [lmem EXCEPT ![lprev[t]].next = lnext[t]]
                                  ELSE lmem
                 /\ UNCHANGED <<lhead, luaf>>
          ELSE /\ luaf' = TRUE
               /\ UNCHANGED <<lhead, lmem>>
       /\ ok => Len(retired) < MaxRetired
       /\ retired' = IF ok THEN Defer(retired, lcurr[t]) ELSE retired
       /\ handed' = IF ok THEN Bump(handed, lcurr[t]) ELSE handed
       /\ reachDefer' = (reachDefer \/ (ok /\ StillReached(lcurr[t], lhead', lmem')))
  /\ lpc' = [lpc EXCEPT ![t] = "r_ret"]
  /\ UNCHANGED <<lalloc, lwork, lprog, lop, lprev, lcurr, lnext, lnewn, pinned>>
  /\ UNCHANGED <<ldone, lastOk, linked, cwrote, lleak, lover>>
  /\ UNCHANGED lhigh
  /\ UNCHANGED <<qvars, hvars>>

\* remove: return true; and the guard is dropped
RemoveReturn(t) ==
  /\ lpc[t] = "r_ret"
  /\ retired' = Unpin(retired, t)
  /\ LReturn(t, TRUE)
  /\ UNCHANGED <<lhead, lmem, lalloc, lwork, lprog, luaf>>
  /\ UNCHANGED lmarks
  /\ UNCHANGED lhigh
  /\ UNCHANGED <<qvars, hvars>>

\* contains: !curr_ref.marked.load(Acquire) && curr_ref.value == *value
Holds(n, v) == ~n.marked /\ n.value = v

\* contains: if curr.is_null() { false }
\*           else { !curr_ref.marked.load(Acquire) && curr_ref.value == *value }
ContainsCheck(t) ==
  /\ lpc[t] = "c_chk"
  /\ IF lcurr[t] = Null
       THEN /\ LReturn(t, FALSE)
            /\ UNCHANGED <<luaf, lmem>>
       ELSE \E n \in LNode(lcurr[t]) :
              /\ luaf' = (luaf \/ lcurr[t] \notin lalloc)
              /\ lmem' = Seen(lcurr[t], n)
              /\ LReturn(t, Holds(n, lop[t].v))
  /\ retired' = Unpin(retired, t)
  /\ UNCHANGED <<lhead, lalloc, lwork, lprog>>
  /\ UNCHANGED lmarks
  /\ UNCHANGED lhigh
  /\ UNCHANGED <<qvars, hvars>>

\* The epoch collector runs a deferred destruction no guard is waiting for:
\* drop(owned).
Collect ==
  /\ \E i \in DOMAIN retired :
       /\ retired[i].waits = {}
       /\ retired' = DropAt(retired, i)
       /\ IF retired[i].addr \in lalloc
            THEN /\ lalloc' = lalloc \ {retired[i].addr}
                 /\ lmem' = [lmem EXCEPT ![retired[i].addr] = LBlank]
                 /\ handed' = [handed EXCEPT ![retired[i].addr] = 0]
                 /\ linked' = linked \ {retired[i].addr}
                 /\ UNCHANGED luaf
            ELSE \* a second free of the address
                 /\ luaf' = TRUE
                 /\ UNCHANGED <<lalloc, lmem, handed, linked>>
  /\ UNCHANGED <<lhead, llocal, ldone, lastOk, reachDefer, cwrote, lleak, lover>>
  /\ UNCHANGED lhigh
  /\ UNCHANGED <<qvars, hvars>>

\* thread::spawn of t after the calls that build the set: the entry of t's
\* program that waits for t1's k-th return.
LAwait(t) ==
  /\ lpc[t] = "idle"
  /\ lprog[t] # <<>>
  /\ Head(lprog[t]).op = "await"
  /\ Len(ldone["t1"]) >= Head(lprog[t]).v
  /\ lprog' = [lprog EXCEPT ![t] = Tail(lprog[t])]
  /\ UNCHANGED <<lshared, lwork, lpc, lop, lprev, lcurr, lnext, lnewn, pinned>>
  /\ UNCHANGED lghost
  /\ UNCHANGED lhigh
  /\ UNCHANGED <<qvars, hvars>>

\* Drop for LockFreeList, run by t1 when every thread has made its calls:
\*   let guard = &epoch::pin();
\*   let mut current = self.head.swap(Shared::null(), Relaxed, guard);
DropSwap(t) ==
  /\ t = "t1"
  /\ \A u \in LThreads : lpc[u] = "idle" /\ lprog[u] = <<>>
  /\ lcurr' = [lcurr EXCEPT ![t] = lhead]
  /\ lhead' = Null
  /\ pinned' = [pinned EXCEPT ![t] = TRUE]
  /\ lpc' = [lpc EXCEPT ![t] = "d_walk"]
  /\ UNCHANGED <<lmem, lalloc, retired, lwork, lprog, lop, lprev, lnext, lnewn>>
  /\ UNCHANGED lghost
  /\ UNCHANGED lhigh
  /\ UNCHANGED <<qvars, hvars>>

\* Drop: while let Some(node) = current.as_ref() {
\*         let next = node.next.load(Relaxed, guard);
\*         guard.defer_destroy(current); current = next; }
\*       and the guard is dropped when the loop ends.
DropWalk(t) ==
  /\ lpc[t] = "d_walk"
  /\ IF lcurr[t] = Null
       THEN /\ retired' = Unpin(retired, t)
            /\ pinned' = [pinned EXCEPT ![t] = FALSE]
            /\ lpc' = [lpc EXCEPT ![t] = "gone"]
            /\ UNCHANGED <<lcurr, handed, luaf, lmem>>
       ELSE \E n \in LNode(lcurr[t]) :
              /\ Len(retired) < MaxRetired
              /\ lmem' = Seen(lcurr[t], n)
              /\ retired' = Defer(retired, lcurr[t])
              /\ handed' = Bump(handed, lcurr[t])
              /\ lcurr' = [lcurr EXCEPT ![t] = n.next]
              /\ luaf' = (luaf \/ lcurr[t] \notin lalloc)
              /\ UNCHANGED <<pinned, lpc>>
  /\ UNCHANGED <<lhead, lalloc, lwork, lprog, lop, lprev, lnext, lnewn>>
  /\ UNCHANGED <<ldone, lastOk, linked, reachDefer, cwrote, lleak, lover>>
  /\ UNCHANGED lhigh
  /\ UNCHANGED <<qvars, hvars>>

\* The steps of thread t.
LStep(t) ==
  \/ LAwait(t)
  \/ LCall(t)
  \/ DropSwap(t) \/ DropWalk(t)
  \/ FindLoadHead(t) \/ FindLoadNext(t) \/ FindCheck(t) \/ FindUnlink(t)
  \/ InsertCheck(t) \/ InsertCas(t)
  \/ RemoveCheck(t) \/ RemoveLoadNext(t) \/ RemoveMark(t)
  \/ RemoveVersion(t) \/ RemoveUnlink(t) \/ RemoveReturn(t)
  \/ ContainsCheck(t)

LNext ==
  \/ \E t \in LThreads : LStep(t)
  \/ Collect

\* --------------------------------------------------------- hash map: heap
HAddrs == 1..NumHAddrs
HPtrs == HAddrs \cup {Null}
HKeys == 1..MaxKey
HVals == 1..MaxHVal
Buckets == 0..(NumBuckets - 1)
\* The threads of the hash map workloads; h1 alone runs the sequential one.
HThreads == {"h1", "h2", "h3"}
\* A null *mut MCSNode.  The MCSNode of a call lives in the frame of the
\* calling thread, so a pointer to it is the name of that thread.
NoNode == "none"
MPtrs == HThreads \cup {NoNode}

\* (hasher.finish() as usize) % NUM_BUCKETS, for a hasher that maps a key to
\* itself: the keys 1 and 3 share a bucket.
bucket_index(k) == k % NumBuckets

HCallOf(o, k, v) == [op |-> o, k |-> k, v |-> v]
\* No call in progress.
HNoCall == HCallOf("none", 0, 0)
\* A call the caller chooses when it makes it.
HAnyCall == HCallOf("any", 0, 0)
\* The calls the next entry c of a program stands for.
HCallsOf(c) ==
  IF c.op = "any"
    THEN {HCallOf("insert", k, v) : k \in HKeys, v \in HVals}
         \cup {HCallOf(o, k, 0) : o \in {"get", "remove"}, k \in HKeys}
    ELSE {c}

\* MaxHOps calls of the caller's choice, made by one thread.
HFreeProg == [i \in 1..MaxHOps |-> HAnyCall]

\* Every thread inserts a key of its own and then reads a key: h1 and h2,
\* whose keys fall into one bucket, read each other's key, h3 reads its own.
OwnKey(t) == CASE t = "h1" -> 1 [] t = "h2" -> 3 [] OTHER -> 2
ReadKey(t) == CASE t = "h1" -> 3 [] t = "h2" -> 1 [] OTHER -> 2
DisjointProg(t) ==
  << HCallOf("insert", OwnKey(t), 1 + (OwnKey(t) % MaxHVal)),
     HCallOf("get", ReadKey(t), 0) >>

\* Inserts, reads and removes of the keys of one bucket by three threads.
ChurnProg(t) ==
  CASE t = "h1" -> << HCallOf("insert", 1, 1), HCallOf("remove", 1, 0) >>
    [] t = "h2" -> << HCallOf("insert", 3, 2), HCallOf("remove", 3, 0) >>
    [] OTHER    -> << HCallOf("get", 3, 0), HCallOf("remove", 3, 0) >>

\* One call of each kind on one key, by three threads at once.
ContendProg(t) ==
  CASE t = "h1" -> << HCallOf("insert", 1, 1) >>
    [] t = "h2" -> << HCallOf("get", 1, 0) >>
    [] OTHER    -> << HCallOf("remove", 1, 0) >>

\* MaxHold cycles of lock(node); unlock(node) on the lock of one bucket, all
\* with the one MCSNode of the thread.
HoldProg == [i \in 1..MaxHold |-> HCallOf("hold", 1, 0)]

\* Memory of an address that holds no node.
HBlank == [key |-> 0, value |-> None, next |-> Null]

\* What a read of *a can return: the node, or anything when a is dangling.
HNode(a) ==
  IF a \in halloc THEN {hmem[a]}
  ELSE [key : HKeys, value : HVals, next : HPtrs]

\* The addresses Box::new can return: one that was freed, or the first of
\* those never used, which stands for all of them.
HFreeAddrs == {a \in HAddrs \ halloc : a <= hhigh + 1}

RECURSIVE HChainOf(_, _)
\* The addresses reached from a along next, a first, at most n of them.
HChainOf(a, n) ==
  IF a = Null \/ a \notin halloc \/ n = 0 THEN <<>>
  ELSE <<a>> \o HChainOf(hmem[a].next, n - 1)
\* The chain of bucket b.
HChain(b) == HChainOf(hbucket[b], NumHAddrs)
\* The keys of the chain of bucket b, the head first.
HChainKeys(b) == [i \in DOMAIN HChain(b) |-> hmem[HChain(b)[i]].key]
\* Some node of the bucket of k holds the key k.
HPresent(k) == \E i \in DOMAIN HChain(bucket_index(k)) :
                 hmem[HChain(bucket_index(k))[i]].key = k

\* What the call in progress of a thread is expected to find.
HNoExp == [ref |-> None, ins |-> None, miss |-> FALSE]
\* The record of a thread that has completed no call.
HNoLast == [op |-> "none", k |-> 0, v |-> 0, res |-> None,
            ref |-> None, ins |-> None, miss |-> FALSE, wrote |-> FALSE,
            waited |-> FALSE, passed |-> FALSE]

\* LockFreeHashMap::with_hasher, and every thread outside a call.
HNew ==
  /\ hbucket = [b \in Buckets |-> Null]
  /\ hmem = [a \in HAddrs |-> HBlank]
  /\ halloc = {}
  /\ hhigh = 0
  /\ mtail = [b \in Buckets |-> NoNode]
  /\ mnext = [t \in HThreads |-> NoNode]
  /\ mlocked = [t \in HThreads |-> TRUE]
  /\ hpc = [t \in HThreads |-> "idle"]
  /\ hop = [t \in HThreads |-> HNoCall]
  /\ hnode = [t \in HThreads |-> Null]
  /\ hcur = [t \in HThreads |-> Null]
  /\ hprv = [t \in HThreads |-> Null]
  /\ mprev = [t \in HThreads |-> NoNode]
  /\ hres = [t \in HThreads |-> None]
  /\ hlast = [t \in HThreads |-> HNoLast]
  /\ hexp = [t \in HThreads |-> HNoExp]
  /\ hwrote = [t \in HThreads |-> FALSE]
  /\ href = [k \in HKeys |-> None]
  /\ hins = [k \in HKeys |-> None]
  /\ huaf = FALSE
  /\ muaf = FALSE
  /\ hord = [b \in Buckets |-> <<>>]

HInit ==
  /\ \/ /\ hwork = "seq"
        /\ hprog = [t \in HThreads |-> IF t = "h1" THEN HFreeProg ELSE <<>>]
     \/ /\ hwork = "disjoint"
        /\ hprog = [t \in HThreads |-> DisjointProg(t)]
     \/ /\ hwork = "churn"
        /\ hprog = [t \in HThreads |-> ChurnProg(t)]
     \/ /\ hwork = "contend"
        /\ hprog = [t \in HThreads |-> ContendProg(t)]
  /\ HNew

\* The hash map of a run that only exercises another container.
HIdle ==
  /\ hwork = "none"
  /\ hprog = [t \in HThreads |-> <<>>]
  /\ HNew

\* -------------------------------------------------------- hash map: steps
\* The bucket of the call in progress of thread t.
HBucketOf(t) == bucket_index(hop[t].k)

\* Where a call goes on when lock() returns.
AfterLock(o) ==
  CASE o = "insert" -> "i_load"
    [] o = "get" -> "g_head"
    [] o = "hold" -> "u_load"
    [] OTHER -> "r_head"

\* Positions between the return of lock() and the call of unlock().
CsPcs == {"i_load", "i_store", "g_head", "g_step", "r_head", "r_step", "u_load"}
\* Positions inside unlock() after its first load.
UnlockPcs == {"u_cas", "u_wait", "u_rel"}

hheap == <<hbucket, hmem, halloc, hhigh>>
hmcs  == <<mtail, mnext, mlocked>>
hwalk == <<hnode, hcur, hprv, hres>>
hhist == <<hlast, hexp, href, hins>>

\* The call o is lock(node); unlock(node) by a caller that owns the MCSNode
\* and passes the same one to its next lock().  The calls of the map write
\* MCSNode::new() into their frame instead.
KeepsNode(o) == o = "hold"
\* MCSNode.locked and MCSNode.next of the node of t when a call o of t begins
\* or has returned.
LockedAtCall(t, o) == IF KeepsNode(o) THEN mlocked[t] ELSE TRUE
NextAtCall(t, o) == IF KeepsNode(o) THEN mnext[t] ELSE NoNode

\* The sequence s without the thread t.
Without(s, t) == SelectSeq(s, LAMBDA u : u # t)

\* The thread's locals and the history once its call has returned.
HReturn(t) ==
  /\ hpc' = [hpc EXCEPT ![t] = "idle"]
  /\ hop' = [hop EXCEPT ![t] = HNoCall]
  /\ hnode' = [hnode EXCEPT ![t] = Null]
  /\ hcur' = [hcur EXCEPT ![t] = Null]
  /\ hprv' = [hprv EXCEPT ![t] = Null]
  /\ mprev' = [mprev EXCEPT ![t] = NoNode]
  /\ hres' = [hres EXCEPT ![t] = None]
  /\ hlast' = [hlast EXCEPT ![t] =
                 [op |-> hop[t].op, k |-> hop[t].k, v |-> hop[t].v,
                  res |-> hres[t], ref |-> hexp[t].ref, ins |-> hexp[t].ins,
                  miss |-> hexp[t].miss, wrote |-> hwrote[t],
                  waited |-> (mprev[t] # NoNode),
                  passed |-> (hpc[t] = "u_rel")]]
  /\ hexp' = [hexp EXCEPT ![t] = HNoExp]
  /\ hwrote' = [hwrote EXCEPT ![t] = FALSE]
  /\ href' = IF hop[t].op = "insert" THEN [href EXCEPT ![hop[t].k] = hop[t].v]
             ELSE IF hop[t].op = "remove" /\ hres[t] # None
               THEN [href EXCEPT ![hop[t].k] = None]
             ELSE href
  /\ hins' = IF hop[t].op = "insert" THEN [hins EXCEPT ![hop[t].k] = hop[t].v]
             ELSE hins

\* insert / get / remove up to the call of lock():
\* let index = self.bucket_index(&key); Box::into_raw(HashNode::new(key, value))
\* for insert; ptr::write(mcs_node_ptr, MCSNode::new()).  A caller that keeps
\* its MCSNode passes it to lock() as the last cycle left it.
HCall(t) ==
  /\ hpc[t] = "idle"
  /\ hprog[t] # <<>>
  /\ \E c \in HCallsOf(Head(hprog[t])) :
       /\ hop' = [hop EXCEPT ![t] = c]
       /\ IF c.op = "insert"
            THEN \E a \in HFreeAddrs :
                   /\ halloc' = halloc \cup {a}
                   /\ hhigh' = IF a > hhigh THEN a ELSE hhigh
                   /\ hmem' = [hmem EXCEPT ![a] = [key |-> c.k, value |-> c.v,
                                                   next |-> Null]]
                   /\ hnode' = [hnode EXCEPT ![t] = a]
            ELSE UNCHANGED <<halloc, hhigh, hmem, hnode>>
       /\ hexp' = [hexp EXCEPT ![t] = [ref |-> href[c.k], ins |-> hins[c.k],
                                       miss |-> ~HPresent(c.k)]]
       /\ hins' = IF c.op \in {"insert", "remove"}
                    THEN [hins EXCEPT ![c.k] = None] ELSE hins
  /\ hprog' = [hprog EXCEPT ![t] = Tail(hprog[t])]
  /\ mnext' = [mnext EXCEPT ![t] = NextAtCall(t, Head(hprog[t]).op)]
  /\ mlocked' = [mlocked EXCEPT ![t] = LockedAtCall(t, Head(hprog[t]).op)]
  /\ hpc' = [hpc EXCEPT ![t] = "lock"]
  /\ UNCHANGED <<hbucket, mtail, hwork, hcur, hprv, mprev, hres>>
  /\ UNCHANGED <<hlast, hwrote, href, huaf, muaf, hord>>
  /\ UNCHANGED <<qvars, lvars>>

\* A lock that takes every caller for the first one.
AcquiredAlways(prev) == TRUE
\* lock: if !prev.is_null() { .. wait .. }: the lock was free at the swap.
Acquired(prev) == prev = NoNode

\* lock: node.next.store(null); let prev = self.tail.swap(node)
LockSwap(t) ==
  /\ hpc[t] = "lock"
  /\ mnext' = [mnext EXCEPT ![t] = NoNode]
  /\ mtail' = [mtail EXCEPT ![HBucketOf(t)] = t]
  /\ mprev' = [mprev EXCEPT ![t] = mtail[HBucketOf(t)]]
  /\ hord' = [hord EXCEPT ![HBucketOf(t)] = Append(@, t)]
  /\ hpc' = [hpc EXCEPT ![t] = IF Acquired(mtail[HBucketOf(t)])
                                 THEN AfterLock(hop[t].op) ELSE "link"]
  /\ UNCHANGED <<hheap, mlocked, hwork, hprog, hop, hwalk>>
  /\ UNCHANGED <<hhist, hwrote, huaf, muaf>>
  /\ UNCHANGED <<qvars, lvars>>

\* lock: (*prev).next.store(node)
LockLink(t) ==
  /\ hpc[t] = "link"
  /\ mnext' = [mnext EXCEPT ![mprev[t]] = t]
  /\ muaf' = (muaf \/ hpc[mprev[t]] = "idle")
  /\ hpc' = [hpc EXCEPT ![t] = "spin"]
  /\ UNCHANGED <<hheap, mtail, mlocked, hwork, hprog, hop, hwalk, mprev>>
  /\ UNCHANGED <<hhist, hwrote, huaf, hord>>
  /\ UNCHANGED <<qvars, lvars>>

\* A spin that never waits.
SpinningNever(l) == FALSE
\* lock: while node.locked.load(Acquire) {}: the loop goes on.
Spinning(l) == l

\* lock: the spin loop ends and lock() returns
LockSpin(t) ==
  /\ hpc[t] = "spin"
  /\ ~Spinning(mlocked[t])
  /\ hpc' = [hpc EXCEPT ![t] = AfterLock(hop[t].op)]
  /\ UNCHANGED <<hheap, hmcs, hwork, hprog, hop, hwalk, mprev>>
  /\ UNCHANGED <<hhist, hwrote, huaf, muaf, hord>>
  /\ UNCHANGED <<qvars, lvars>>

\* An insert that links nothing behind the new node.
OldHeadNull(b) == Null
\* insert: self.buckets[index].1.load(Acquire), the chain the new node goes
\* in front of
OldHead(b) == hbucket[b]

\* insert: (*node).next.store(self.buckets[index].1.load(Acquire))
InsertLoad(t) ==
  /\ hpc[t] = "i_load"
  /\ hmem' = [hmem EXCEPT ![hnode[t]].next = OldHead(HBucketOf(t))]
  /\ hpc' = [hpc EXCEPT ![t] = "i_store"]
  /\ UNCHANGED <<hbucket, halloc, hhigh, hmcs, hwork, hprog, hop, hwalk, mprev>>
  /\ UNCHANGED <<hhist, hwrote, huaf, muaf, hord>>
  /\ UNCHANGED <<qvars, lvars>>

\* insert: self.buckets[index].1.store(node)
InsertStore(t) ==
  /\ hpc[t] = "i_store"
  /\ hbucket' = [hbucket EXCEPT ![HBucketOf(t)] = hnode[t]]
  /\ hwrote' = [hwrote EXCEPT ![t] = TRUE]
  /\ hpc' = [hpc EXCEPT ![t] = "u_load"]
  /\ UNCHANGED <<hmem, halloc, hhigh, hmcs, hwork, hprog, hop, hwalk, mprev>>
  /\ UNCHANGED <<hhist, huaf, muaf, hord>>
  /\ UNCHANGED <<qvars, lvars>>

\* A comparison that takes every key for the one looked for.
KeyEqAlways(nk, k) == TRUE
\* get, remove: (*current).key.borrow() == key
KeyEq(nk, k) == nk = k

\* get: let mut current = self.buckets[index].1.load(Acquire)
GetHead(t) ==
  /\ hpc[t] = "g_head"
  /\ hcur' = [hcur EXCEPT ![t] = hbucket[HBucketOf(t)]]
  /\ hpc' = [hpc EXCEPT ![t] = "g_step"]
  /\ UNCHANGED <<hheap, hmcs, hwork, hprog, hop, hnode, hprv, hres, mprev>>
  /\ UNCHANGED <<hhist, hwrote, huaf, muaf, hord>>
  /\ UNCHANGED <<qvars, lvars>>

\* get: one turn of while !current.is_null() { .. }
GetStep(t) ==
  /\ hpc[t] = "g_step"
  /\ IF hcur[t] = Null
       THEN /\ hpc' = [hpc EXCEPT ![t] = "u_load"]
            /\ UNCHANGED <<hcur, hres, huaf>>
       ELSE /\ huaf' = (huaf \/ hcur[t] \notin halloc)
            /\ \E n \in HNode(hcur[t]) :
                 IF KeyEq(n.key, hop[t].k)
                   THEN /\ hres' = [hres EXCEPT ![t] = n.value]
                        /\ hpc' = [hpc EXCEPT ![t] = "u_load"]
                        /\ UNCHANGED hcur
                   ELSE /\ hcur' = [hcur EXCEPT ![t] = n.next]
                        /\ UNCHANGED <<hres, hpc>>
  /\ UNCHANGED <<hheap, hmcs, hwork, hprog, hop, hnode, hprv, mprev>>
  /\ UNCHANGED <<hhist, hwrote, muaf, hord>>
  /\ UNCHANGED <<qvars, lvars>>

\* remove: let mut prev_ptr = &self.buckets[index].1;
\*         let mut current = self.buckets[index].1.load(Acquire)
RemoveHead(t) ==
  /\ hpc[t] = "r_head"
  /\ hprv' = [hprv EXCEPT ![t] = Null]
  /\ hcur' = [hcur EXCEPT ![t] = hbucket[HBucketOf(t)]]
  /\ hpc' = [hpc EXCEPT ![t] = "r_step"]
  /\ UNCHANGED <<hheap, hmcs, hwork, hprog, hop, hnode, hres, mprev>>
  /\ UNCHANGED <<hhist, hwrote, huaf, muaf, hord>>
  /\ UNCHANGED <<qvars, lvars>>

\* remove: one turn of while !current.is_null() { .. }: on a match
\* (*prev_ptr).store(next); removed_value = Some(value); Box::from_raw(current)
RemoveStep(t) ==
  /\ hpc[t] = "r_step"
  /\ IF hcur[t] = Null
       THEN /\ hpc' = [hpc EXCEPT ![t] = "u_load"]
            /\ UNCHANGED <<hbucket, hmem, halloc, hcur, hprv, hres, hwrote, huaf>>
       ELSE \E n \in HNode(hcur[t]) :
              IF KeyEq(n.key, hop[t].k)
                THEN /\ hbucket' = IF hprv[t] = Null
                                     THEN [hbucket EXCEPT ![HBucketOf(t)] = n.next]
                                     ELSE hbucket
                     /\ hmem' = [a \in HAddrs |->
                                   IF a = hcur[t] THEN HBlank
                                   ELSE IF a = hprv[t] /\ a \in halloc
                                     THEN [hmem[a] EXCEPT !.next = n.next]
                                   ELSE hmem[a]]
                     /\ halloc' = halloc \ {hcur[t]}
                     /\ hres' = [hres EXCEPT ![t] = n.value]
                     /\ hwrote' = [hwrote EXCEPT ![t] = TRUE]
                     /\ huaf' = (\/ huaf
                                 \/ hcur[t] \notin halloc
                                 \/ (hprv[t] # Null /\ hprv[t] \notin halloc))
                     /\ hpc' = [hpc EXCEPT ![t] = "u_load"]
                     /\ UNCHANGED <<hcur, hprv>>
                ELSE /\ hprv' = [hprv EXCEPT ![t] = hcur[t]]
                     /\ hcur' = [hcur EXCEPT ![t] = n.next]
                     /\ huaf' = (huaf \/ hcur[t] \notin halloc)
                     /\ UNCHANGED <<hbucket, hmem, halloc, hres, hwrote, hpc>>
  /\ UNCHANGED <<hhigh, hmcs, hwork, hprog, hop, hnode, mprev>>
  /\ UNCHANGED <<hhist, muaf, hord>>
  /\ UNCHANGED <<qvars, lvars>>

\* unlock: let next = node.next.load(Acquire); if next.is_null() { .. }
UnlockLoad(t) ==
  /\ hpc[t] = "u_load"
  /\ hpc' = [hpc EXCEPT ![t] = IF mnext[t] = NoNode THEN "u_cas" ELSE "u_rel"]
  /\ UNCHANGED <<hheap, hmcs, hwork, hprog, hop, hwalk, mprev>>
  /\ UNCHANGED <<hhist, hwrote, huaf, muaf, hord>>
  /\ UNCHANGED <<qvars, lvars>>

\* unlock: self.tail.compare_exchange(node, null); return when it succeeds.
\* The MCSNode then goes out of scope with the frame of the call.
UnlockCas(t) ==
  /\ hpc[t] = "u_cas"
  /\ IF mtail[HBucketOf(t)] = t
       THEN /\ mtail' = [mtail EXCEPT ![HBucketOf(t)] = NoNode]
            /\ hord' = [hord EXCEPT ![HBucketOf(t)] = Without(@, t)]
            /\ mnext' = [mnext EXCEPT ![t] = NextAtCall(t, hop[t].op)]
            /\ mlocked' = [mlocked EXCEPT ![t] = LockedAtCall(t, hop[t].op)]
            /\ HReturn(t)
       ELSE /\ hpc' = [hpc EXCEPT ![t] = "u_wait"]
            /\ UNCHANGED <<hmcs, hop, hwalk, mprev, hhist, hwrote, hord>>
  /\ UNCHANGED <<hheap, hwork, hprog>>
  /\ UNCHANGED <<huaf, muaf>>
  /\ UNCHANGED <<qvars, lvars>>

\* unlock: while node.next.load(Acquire).is_null() {}: the loop ends
UnlockWait(t) ==
  /\ hpc[t] = "u_wait"
  /\ mnext[t] # NoNode
  /\ hpc' = [hpc EXCEPT ![t] = "u_rel"]
  /\ UNCHANGED <<hheap, hmcs, hwork, hprog, hop, hwalk, mprev>>
  /\ UNCHANGED <<hhist, hwrote, huaf, muaf, hord>>
  /\ UNCHANGED <<qvars, lvars>>

\* An unlock that leaves the flag of the successor set.
UnlockedNot == TRUE
\* unlock: the value stored to the successor's flag, locked.store(false)
Unlocked == FALSE

\* unlock: (*node.next.load(Acquire)).locked.store(false); return.
\* The MCSNode then goes out of scope with the frame of the call.
UnlockRelease(t) ==
  /\ hpc[t] = "u_rel"
  /\ mlocked' = [u \in HThreads |->
                   IF u = mnext[t] THEN Unlocked
                   ELSE IF u = t THEN LockedAtCall(t, hop[t].op)
                   ELSE mlocked[u]]
  /\ mnext' = [mnext EXCEPT ![t] = NextAtCall(t, hop[t].op)]
  /\ muaf' = (muaf \/ hpc[mnext[t]] = "idle")
  /\ hord' = [hord EXCEPT ![HBucketOf(t)] = Without(@, t)]
  /\ HReturn(t)
  /\ UNCHANGED <<hheap, mtail, hwork, hprog>>
  /\ UNCHANGED huaf
  /\ UNCHANGED <<qvars, lvars>>

\* A step of thread t.
HStep(t) ==
  \/ HCall(t)
  \/ LockSwap(t) \/ LockLink(t) \/ LockSpin(t)
  \/ InsertLoad(t) \/ InsertStore(t)
  \/ GetHead(t) \/ GetStep(t)
  \/ RemoveHead(t) \/ RemoveStep(t)
  \/ UnlockLoad(t) \/ UnlockCas(t) \/ UnlockWait(t) \/ UnlockRelease(t)

HNext == \E t \in HThreads : HStep(t)

\* ---------------------------------------------------------- specifications
\* The runs of the queues.
Init == QInit /\ LIdle /\ HIdle
Next == QNext
Spec == Init /\ [][Next]_vars

\* The queues, dropped once every thread is done.
DropInit ==
  /\ kind \in {"atomic", "lockfree"}
  /\ work = DropLoad.name /\ plan = DropLoad.plan /\ ndeq = DropLoad.ndeq
  /\ QNew
  /\ LIdle
  /\ HIdle
DropSpec == DropInit /\ [][DropNext]_vars

\* The runs of the ordered set: one thread alone, and the short races of two
\* threads on one value.
ListInit ==
  /\ LInit
  /\ lwork \in {"script", "order", "free", "same", "rem2", "ins2"}
  /\ QIdle
  /\ HIdle
ListNext == LNext
ListSpec == ListInit /\ [][ListNext]_vars

\* The runs of tests::test_concurrent_operations with two threads.
PairInit == LInit /\ lwork = "pairs" /\ QIdle /\ HIdle
PairSpec == PairInit /\ [][ListNext]_vars

\* The runs in which two inserts race on a set whose nodes were all removed.
ReuseInit == LInit /\ lwork = "reuse" /\ QIdle /\ HIdle
ReuseSpec == ReuseInit /\ [][ListNext]_vars

\* The runs of the ordered set in which the scheduler lets every thread that
\* can take a step take one eventually; the collector is under no such duty.
\* The workloads are the scripted ones: one thread alone, or two removers.
FairInit == ListInit /\ lwork \in {"script", "order", "rem2"}
ListFairSpec ==
  FairInit /\ [][ListNext]_vars /\ \A t \in LThreads : WF_vars(LStep(t))

\* The runs of the hash map: one thread alone, three threads on keys of their
\* own, and three threads inserting, reading and removing in one bucket.
HashInit == HInit /\ QIdle /\ LIdle
HashSpec == HashInit /\ [][HNext]_vars

\* The runs of three threads that each take and release one MCSLock MaxHold
\* times, every thread with one MCSNode written by MCSNode::new() before its
\* first lock() and used again for the later ones.
HoldInit ==
  /\ hwork = "hold"
  /\ hprog = [t \in HThreads |-> HoldProg]
  /\ HNew
  /\ QIdle
  /\ LIdle
HoldStep(t) ==
  \/ HCall(t)
  \/ LockSwap(t) \/ LockLink(t) \/ LockSpin(t)
  \/ UnlockLoad(t) \/ UnlockCas(t) \/ UnlockWait(t) \/ UnlockRelease(t)
HoldNext == \E t \in HThreads : HoldStep(t)
HoldSpec == HoldInit /\ [][HoldNext]_vars

\* The runs of the hash map in which the scheduler lets every thread that can
\* take a step take one eventually; three threads contend for one bucket.
HashFairInit == HashInit /\ hwork = "contend"
HashFairSpec ==
  HashFairInit /\ [][HNext]_vars /\ \A t \in HThreads : WF_vars(HStep(t))


\* ------------------------------------------------------ FIFO queue: claims
\* Every thread has made all its calls and each call has returned.
QAllDone ==
  /\ ~crashed
  /\ \A t \in Threads : pc[t] = "idle" /\ plan[t] = <<>> /\ ndeq[t] = 0

RECURSIVE ChainFrom(_, _)
\* The addresses reached from a along next, a first, at most k of them.
ChainFrom(a, k) ==
  IF a = Null \/ a \notin alloc \/ k = 0 THEN <<>>
  ELSE <<a>> \o ChainFrom(mem[a].next, k - 1)

\* The nodes of the queue, the sentinel first.
QChain == ChainFrom(head, NumAddrs)

\* How many elements of sequence s satisfy being equal to v.
CountIn(s, v) == Cardinality({i \in DOMAIN s : s[i] = v})

\* The values held by the nodes behind the sentinel.
QHeld == [i \in 1..(Len(QChain) - 1) |-> mem[QChain[i + 1]].value]

\* C1: one producer, one consumer: the k-th successful dequeue returns the k-th
\* enqueued value, and a dequeue returns absent only when every value enqueued
\* so far had been consumed at some instant of the call.
C1_SpscFifo ==
  work = "spsc" =>
    \A r \in hist :
      IF r.cas > 0
        THEN r.cas \in 1..MaxEnq /\ r.val = PlanOf(1, MaxEnq)[r.cas]
        ELSE r.val = None /\ r.empty

\* C1 witness: the consumer has received every value and then an absent result.
C1_Witness ==
  /\ work = "spsc"
  /\ \A k \in 1..MaxEnq : \E r \in hist : r.cas = k /\ r.val = PlanOf(1, MaxEnq)[k]
  /\ \E r \in hist : r.cas = 0 /\ r.val = None /\ r.calm

\* C2: at the end of a run, every enqueued value was returned by exactly one
\* dequeue or is still in the queue, and nothing else was returned.
C2_NoLossNoDup ==
  QAllDone =>
    \A v \in Values :
      Cardinality({r \in hist : r.val = v}) + CountIn(QHeld, v)
        = IF v \in enqd THEN 1 ELSE 0

\* C3: in the order of the successful CASes on head, the values of one producer
\* come out in the order the producer enqueued them.
C3_ProducerOrder ==
  \A r1, r2 \in hist :
    (/\ r1.val # None /\ r2.val # None
     /\ ProducerOf(r1.val) = ProducerOf(r2.val)
     /\ r1.cas < r2.cas) => r1.val < r2.val

\* C4: a dequeue returns the front of the abstract queue at its successful CAS
\* on head, and returns absent only if the abstract queue was empty at some
\* instant of the call.
C4_Linearizable ==
  \A r \in hist :
    /\ r.cas > 0 => (r.val = r.exp /\ r.val # None)
    /\ r.val = None => (r.cas = 0 /\ r.empty)

\* C5: no thread reads or writes, through a pointer it holds, a node that has
\* been freed.
C5_NoUseAfterFree == ~uaf

\* C6: head points to a node with an empty value, tail is reachable from head
\* and is the last node of the chain or the one before it.
C6_Structure ==
  /\ head \in alloc
  /\ mem[head].value = None
  /\ \E i \in DOMAIN QChain : QChain[i] = tail /\ i >= Len(QChain) - 1

\* C7: a dequeue call during which the queue holds no element takes three
\* steps of its own (the loads of head, tail and head.next), changes neither
\* head nor tail nor a node, and returns absent.
C7_EmptyDequeue ==
  /\ \A t \in Threads :
       (pc[t] \in DeqPcs /\ calm[t]) =>
         /\ ~wrote[t]
         /\ (pc[t] = "d_tail" /\ nsteps[t] = 1) \/ (pc[t] = "d_next" /\ nsteps[t] = 2)
  /\ \A r \in hist :
       r.calm => r.val = None /\ r.cas = 0 /\ r.steps = 3 /\ ~r.wrote

\* Some enqueue or dequeue call has been started and has not returned.
QPending == \E t \in Threads : pc[t] # "idle"

\* C8: while a call is pending some thread can take a step, so that under fair
\* scheduling a pending call returns.
C8_Progress == QPending => ENABLED Next


\* ------------------------------------------------------ ordered set: claims
\* The results scenario S3 expects of its six calls.
S3Expect == <<TRUE, FALSE, TRUE, TRUE, FALSE, FALSE>>

\* C9: on a newly created set, for every value v, the calls insert(v),
\* insert(v), contains(v), remove(v), contains(v), remove(v) made one after
\* the other return true, false, true, true, false, false: every call of the
\* scenario that has returned returned the result expected at its position.
C9_Scenario ==
  lwork = "script" =>
    \A t \in LThreads : \A i \in DOMAIN ldone[t] : ldone[t][i].res = S3Expect[i]

\* The six calls of the scenario have returned.
C9_Witness ==
  /\ lwork = "script"
  /\ \E t \in LThreads :
       /\ Len(ldone[t]) = 6
       /\ \E v \in LVals : \A i \in 1..6 :
            /\ ldone[t][i].op = S3Script(v)[i].op
            /\ ldone[t][i].v = v

\* C10: in a sequential run, contains(v) returns true exactly when the last
\* call on v that returned true was an insert (so a remove of one value does
\* not change what contains returns for another).
C10_ReferenceSet ==
  lwork = "free" =>
    \A t \in LThreads : \A i \in DOMAIN ldone[t] :
      ldone[t][i].op = "contains" => ldone[t][i].res = ldone[t][i].ref


\* The values of the nodes reached from head, in next order.
LWalk == [i \in DOMAIN LChain |-> lmem[LChain[i]].value]

\* The three inserts of the script have returned true and the walk from head
\* visits 1, 2, 3.
OrderDone ==
  /\ Len(ldone["t1"]) = Len(OrderScript)
  /\ \A i \in DOMAIN ldone["t1"] : ldone["t1"][i].res
  /\ LWalk = <<1, 2, 3>>

\* C11: on a new set insert(3), insert(1), insert(2) each return true, and
\* then the walk along next from head visits the values 1, 2, 3: a run of that
\* script gets to the state where this is so.
C11_OrderedInserts == (lwork = "order") => <>OrderDone

\* C12: a call of insert, remove or contains made by a thread that runs alone
\* returns after finitely many steps, whatever the set holds and whatever the
\* argument is.
C12_SoloReturns ==
  (lwork \in {"script", "order"}) =>
     \A t \in LThreads : [](InCall(t) => <>(~InCall(t)))

\* No thread is inside a call, and the set has not been dropped.
Quiescent == \A t \in LThreads : lpc[t] = "idle"

\* The unmarked nodes reached from head, in next order.
LLiveChain == SelectSeq(LChain, LAMBDA a : ~lmem[a].marked)
\* Their values.
LLiveVals == [i \in DOMAIN LLiveChain |-> lmem[LLiveChain[i]].value]

\* C13: at every quiescent point the values of the unmarked nodes reached
\* from head are strictly increasing in next order, so that no value is held
\* by two of them.
C13_Sorted ==
  Quiescent =>
    \A i, j \in DOMAIN LLiveVals : i < j => LLiveVals[i] < LLiveVals[j]

\* Every thread has made all its calls and each call has returned.
LAllDone == \A t \in LThreads : lpc[t] = "idle" /\ lprog[t] = <<>>

\* The calls of the one thread of a sequential run, in the order it made them.
SoloDone == ldone["t1"]

\* C14: when insert(v) has returned true and remove(v) is never called, every
\* contains(v) made at a later quiescent point returns true, whatever the
\* calls on other values were.
C14_InsertStays ==
  (lwork \in {"script", "free"} /\ LAllDone) =>
    \A i \in DOMAIN SoloDone :
      ( /\ SoloDone[i].op = "contains"
        /\ \E j \in 1..(i - 1) :
             /\ SoloDone[j].op = "insert"
             /\ SoloDone[j].v = SoloDone[i].v
             /\ SoloDone[j].res
        /\ \A k \in DOMAIN SoloDone :
             ~(SoloDone[k].op = "remove" /\ SoloDone[k].v = SoloDone[i].v) )
      => SoloDone[i].res

\* C15: every node find or remove hands to deferred reclamation is, when it is
\* handed over, no longer reached from head.
C15_HandedUnreached == ~reachDefer

\* C16: over the life of the set, its drop included, no node that was linked
\* is handed to reclamation twice, and when the drop has run every node that
\* was linked has been handed over.
C16_HandedOnce ==
  /\ \A a \in LAddrs : handed[a] <= 1
  /\ lpc["t1"] = "gone" => \A a \in linked : handed[a] = 1

\* C17: contains(v) writes to no head and to no field of a node and hands no
\* node to reclamation, also when marked nodes are still linked.
C17_ContainsReadOnly == ~cwrote

\* C18: while threads insert, remove and insert again the same value v,
\* contains(v) never returns true on the strength of a node that was unlinked
\* from the list, or handed to reclamation, when contains read it.
C18_NoStaleHit ==
  (lwork = "same") =>
    \A t \in LThreads : \A i \in DOMAIN ldone[t] :
      ldone[t][i].conc => ~ldone[t][i].stale

\* What the four assertions of a thread of the test expect.
PairExpect == <<TRUE, TRUE, TRUE, FALSE>>

\* C19: when each thread runs insert(i), contains(i), remove(i), contains(i)
\* on a value i of its own, the four calls return true, true, true, false in
\* every interleaving.
C19_PairResults ==
  (lwork = "pairs") =>
    \A t \in LThreads : \A i \in DOMAIN ldone[t] :
      ldone[t][i].res = PairExpect[i]

\* The value the concurrent removes are after: the argument of t2's one call.
RemTarget ==
  IF ldone["t2"] # <<>> THEN ldone["t2"][1].v
  ELSE IF lop["t2"] # NoCall THEN lop["t2"].v
  ELSE lprog["t2"][Len(lprog["t2"])].v

\* The remove(v) calls that have returned true, as (thread, position) pairs.
RemovesWon ==
  {<<t, i>> \in LThreads \X (1..MaxOps) :
     /\ i \in DOMAIN ldone[t]
     /\ ldone[t][i].op = "remove" /\ ldone[t][i].res
     /\ ldone[t][i].v = RemTarget}

\* C20: of the concurrent remove(v) calls on a set that holds v once, with no
\* insert(v) running, exactly one returns true and the others return false.
C20_OneRemoveWins ==
  (lwork = "rem2" /\ LAllDone /\ ldone["t2"][1].conc) =>
    Cardinality(RemovesWon) = 1

\* ------------------------------------------------------- FIFO queue: drop claims
\* C29: once the queue has been dropped, no node it allocated is still
\* allocated: every node it owned, the sentinel included, was freed.
C29_DropFreesAll == qdrop = "done" => alloc = {}

\* C30: a successful CAS on head moves head from a node to the node linked
\* behind it, the dequeue then frees the old head, which no other dequeue has
\* freed, and the new head's value is empty when the call returns.
C30_HandOff ==
  /\ ~badcas
  /\ \A t \in Threads :
       pc[t] = "d_free" =>
         /\ lh[t] \in alloc
         /\ ln[t] \in alloc => mem[ln[t]].value = None

\* --------------------------------------------------------- hash map: claims
\* C21: in a sequential run every get(k) returns what a reference map holds
\* for k: the value of the last insert(k, _) unless a remove(k) returned a
\* value after it, and absent otherwise.
C21_ReferenceMap ==
  hwork = "seq" =>
    \A t \in HThreads : hlast[t].op = "get" => hlast[t].res = hlast[t].ref

\* C22: no bucket chain holds two nodes with the same key.
C22_NoDuplicateKey ==
  \A b \in Buckets :
    \A i, j \in DOMAIN HChainKeys(b) :
      HChainKeys(b)[i] = HChainKeys(b)[j] => i = j

\* C23: threads insert keys of their own, some in one bucket, and read keys
\* back: a get of a key whose insert had returned when the get was called
\* returns the inserted value.
C23_NoLostInsert ==
  hwork = "disjoint" =>
    \A t \in HThreads :
      (hlast[t].op = "get" /\ hlast[t].ins # None) => hlast[t].res = hlast[t].ins

\* C23 witness: h1 has read the key of h2, which shares its bucket, after the
\* insert of h2 returned, and h1 had to wait for the bucket lock to do so.
C23_Witness ==
  /\ hwork = "disjoint"
  /\ hlast["h1"].op = "get" /\ hlast["h1"].k = OwnKey("h2")
  /\ hlast["h1"].ins # None /\ hlast["h1"].res = hlast["h1"].ins
  /\ hlast["h1"].waited

\* C24: in a sequential run a get or remove of a key that no node holds
\* returns absent and changes no chain; and no thread outside a call holds or
\* waits for a bucket lock.
C24_MissingKey ==
  /\ hwork = "seq" =>
       \A t \in HThreads :
         (hlast[t].op \in {"get", "remove"} /\ hlast[t].miss) =>
           (hlast[t].res = None /\ ~hlast[t].wrote)
  /\ \A t \in HThreads :
       hpc[t] = "idle" =>
         \A b \in Buckets : mtail[b] # t /\ Without(hord[b], t) = hord[b]

\* C24 witness: a remove of a missing key has returned after walking a chain
\* of two nodes, and the lock of that bucket is free again.
C24_Witness ==
  /\ hwork = "seq"
  /\ hpc["h1"] = "idle"
  /\ hlast["h1"].op = "remove" /\ hlast["h1"].miss /\ hlast["h1"].res = None
  /\ Len(HChain(bucket_index(hlast["h1"].k))) = 2
  /\ mtail[bucket_index(hlast["h1"].k)] = NoNode

\* C25: no thread reads or writes a hash node that has been freed.
C25_NoFreedNodeRead == ~huaf

\* C25 witness: a remove has freed a node and returned, and another thread is
\* now walking the chain of the same bucket.
C25_Witness ==
  \E t, u \in HThreads :
    /\ t # u
    /\ hlast[t].op = "remove" /\ hlast[t].res # None
    /\ hpc[u] \in {"g_step", "r_step"}
    /\ HBucketOf(u) = bucket_index(hlast[t].k)

\* The threads between the return of lock() and their call of unlock() on
\* the lock of bucket b.
Holders(b) == {t \in HThreads : hpc[t] \in CsPcs /\ HBucketOf(t) = b}

\* C26: at most one thread is between the return of lock() and its unlock()
\* on the lock of one bucket.
C26_MutualExclusion == \A b \in Buckets : Cardinality(Holders(b)) <= 1

\* C26 witness: a thread that found a predecessor at its swap is inside the
\* critical section while another thread spins for the same lock.
C26_Witness ==
  \E t, u \in HThreads :
    /\ hpc[t] \in CsPcs /\ mprev[t] # NoNode
    /\ hpc[u] = "spin" /\ HBucketOf(u) = HBucketOf(t)

\* C27: the thread that holds or releases the lock of a bucket is the one
\* whose swap of tail is the oldest among the threads queued on that lock.
C27_FifoOrder ==
  \A t \in HThreads :
    hpc[t] \in (CsPcs \cup UnlockPcs) =>
      /\ hord[HBucketOf(t)] # <<>>
      /\ Head(hord[HBucketOf(t)]) = t

\* C27 witness: three threads are queued on one lock and the holder is a
\* thread that had waited for its own turn.
C27_Witness ==
  \E b \in Buckets :
    /\ Len(hord[b]) = 3
    /\ hpc[hord[b][1]] \in CsPcs
    /\ mprev[hord[b][1]] # NoNode
    /\ hpc[hord[b][3]] = "spin"

\* Positions inside lock().
LockPcs == {"lock", "link", "spin"}

\* C28: under weak fairness every call of lock() returns and every call of
\* unlock() returns.
C28_NoStarvation ==
  \A t \in HThreads :
    /\ [](hpc[t] \in LockPcs => <>(hpc[t] \in CsPcs))
    /\ [](hpc[t] \in (CsPcs \cup UnlockPcs) => <>(hpc[t] = "idle"))

\* C28 witness: every thread has returned, one of them after waiting in
\* lock() and one after handing the lock over in unlock().
C28_Witness ==
  /\ hwork = "contend"
  /\ \A t \in HThreads : hpc[t] = "idle" /\ hprog[t] = <<>>
  /\ \E t \in HThreads : hlast[t].waited
  /\ \E t \in HThreads : hlast[t].passed

\* ------------------------------------------------- FIFO queue: more claims
\* C31: a pass of AtomicQueue::dequeue whose compare_exchange on head fails
\* has changed no node: at the failing step the pass has written nothing to
\* the value or next of any node.
C31_FailedCasFrame ==
  [][\A t \in Threads :
       (kind = "atomic" /\ pc[t] = "d_cas" /\ pc'[t] = "d_head") => ~took[t]]_vars

\* ------------------------------------------------- ordered set: more claims
\* Positions of a call at which find has just returned (prev, curr).
FoundPcs == {"i_chk", "r_chk", "c_chk"}

\* The first unmarked node reached from head whose value is at least v, null
\* when there is none.
FirstAtLeast(v) ==
  LET hits == {i \in DOMAIN LChain :
                 ~lmem[LChain[i]].marked /\ lmem[LChain[i]].value >= v}
  IN IF hits = {} THEN Null
     ELSE LChain[CHOOSE i \in hits : \A j \in hits : i <= j]

\* C32: when find(v) returns in a call that overlaps no other call, curr is
\* the first unmarked node reached from head with value >= v, or null; prev
\* is null when curr is the first node of the list, and otherwise the node
\* reached from head whose next is curr.
C32_FindResult ==
  \A t \in LThreads :
    (lpc[t] \in FoundPcs /\ ~lover[t]) =>
      /\ lcurr[t] = FirstAtLeast(lop[t].v)
      /\ IF lcurr[t] = lhead THEN lprev[t] = Null
         ELSE lprev[t] \in LReach /\ lmem[lprev[t]].next = lcurr[t]

\* A node that is marked and stays allocated stays marked.
MarkSticky ==
  \A a \in LAddrs :
    (a \in lalloc /\ a \in lalloc' /\ lmem[a].marked) => lmem'[a].marked

\* When find returns in a call that overlaps no other call, every marked node
\* still reached from head lies behind the curr it returned: the traversal
\* has not passed over it.
NoMarkedPassed ==
  \A t \in LThreads :
    (lpc[t] \in FoundPcs /\ ~lover[t]) =>
      \A i \in DOMAIN LChain :
        lmem[LChain[i]].marked => \E j \in 1..(i - 1) : LChain[j] = lcurr[t]

\* C33: the marked flag of a node never becomes false again, and once a find
\* that runs with no concurrent operation has passed over a marked node, that
\* node is no longer reachable from head.
C33_MarkedUnlinked == [][MarkSticky]_vars /\ []NoMarkedPassed

\* The nodes insert calls in progress have allocated and not yet linked.
PendingNew == {lnewn[t] : t \in LThreads} \ {Null}

\* C34: insert publishes at most one node per call: a node whose linking
\* compare_exchange failed has been freed when the call retries, a node not
\* yet linked is not reachable from head, and every allocated node is either
\* the new node of a call in progress or a node that a successful
\* compare_exchange of insert linked.
C34_OneNodePerCall ==
  /\ ~lleak
  /\ PendingNew \cap LReach = {}
  /\ lalloc \subseteq (linked \cup PendingNew)

\* The calls thread t makes in the whole run.
CallsIn(t) ==
  Len(ldone[t]) + (IF lop[t] # NoCall THEN 1 ELSE 0)
    + Cardinality({i \in DOMAIN lprog[t] : lprog[t][i].op # "await"})

\* The threads whose last call, the racing insert(v), has returned true.
InsertsWon ==
  {t \in LThreads :
     /\ ldone[t] # <<>> /\ Len(ldone[t]) = CallsIn(t)
     /\ ldone[t][Len(ldone[t])].op = "insert"
     /\ ldone[t][Len(ldone[t])].res}

\* The value of the racing inserts: the argument of t2's one call.
InsTarget ==
  IF ldone["t2"] # <<>> THEN ldone["t2"][1].v
  ELSE IF lop["t2"] # NoCall THEN lop["t2"].v
  ELSE lprog["t2"][Len(lprog["t2"])].v

\* The insert of t2 overlaps a call of t1.
InsRacing ==
  IF ldone["t2"] # <<>> THEN ldone["t2"][1].conc ELSE lover["t2"]

\* C35: when two threads call insert(v) at once on a set that does not hold
\* v, with no remove running, at most one of the calls returns true, and never
\* are two unmarked nodes with value v reachable from head.
C35_OneInsertWins ==
  (lwork = "ins2" /\ InsRacing) =>
    /\ Cardinality(InsertsWon) <= 1
    /\ Cardinality({i \in DOMAIN LLiveVals : LLiveVals[i] = InsTarget}) <= 1

\* ---------------------------------------------------- hash map: more claims
\* The nodes of the chain of bucket b, the head first, each with its address.
HRows(b) ==
  [i \in DOMAIN HChain(b) |->
     [a |-> HChain(b)[i], key |-> hmem[HChain(b)[i]].key,
      value |-> hmem[HChain(b)[i]].value]]

\* The places in the chain of bucket b of the nodes with key k.
HHits(b, k) == {i \in DOMAIN HRows(b) : HRows(b)[i].key = k}

\* The step adds the node of t's insert at the head of the chain of b.
PushedBy(t, b) ==
  /\ hop[t].op = "insert" /\ hpc[t] = "i_store" /\ hpc'[t] # "i_store"
  /\ b = bucket_index(hop[t].k)
  /\ HRows(b)' = <<[a |-> hnode[t], key |-> hop[t].k, value |-> hop[t].v]>>
                   \o HRows(b)

\* The step splices the node nearest the head with t's key out of the chain
\* of b, frees it and takes its value for the result of t's remove.
SplicedBy(t, b) ==
  /\ hop[t].op = "remove" /\ hpc[t] = "r_step" /\ hpc'[t] # "r_step"
  /\ b = bucket_index(hop[t].k)
  /\ HHits(b, hop[t].k) # {}
  /\ LET i == CHOOSE i \in HHits(b, hop[t].k) :
                 \A j \in HHits(b, hop[t].k) : i <= j
     IN /\ HRows(b)' = DropAt(HRows(b), i)
        /\ hres'[t] = HRows(b)[i].value
        /\ HRows(b)[i].a \notin halloc'

\* Every step leaves the chain of every bucket as it was, but for the one
\* bucket to which an insert adds its node or from which a remove takes one.
ChainFrame ==
  \A b \in Buckets :
    \/ HRows(b)' = HRows(b)
    \/ \E t \in HThreads : PushedBy(t, b) \/ SplicedBy(t, b)

\* What the calls that have returned did: an insert changed a chain, a remove
\* did so exactly when it returns a value, a get did not.
CallsFramed ==
  \A t \in HThreads :
    /\ hlast[t].op = "insert" => hlast[t].wrote
    /\ hlast[t].op = "remove" => (hlast[t].wrote <=> hlast[t].res # None)
    /\ hlast[t].op = "get" => ~hlast[t].wrote

\* C36: remove(k) splices out exactly one node, the one nearest the bucket
\* head whose key is k, and returns its value; insert(k, v) adds exactly one
\* node at the head of the bucket of k; neither changes another node of the
\* bucket, the order of its nodes, or another bucket.
C36_ChainFrame == [][ChainFrame]_vars /\ []CallsFramed

\* C36 witness: a remove has returned the value of the nearer of two nodes
\* with its key, the other one is still in the chain, and the other bucket
\* holds a node.
C36_Witness ==
  /\ hwork = "seq"
  /\ hlast["h1"].op = "remove" /\ hlast["h1"].res # None
  /\ HPresent(hlast["h1"].k)
  /\ \E b \in Buckets : b # bucket_index(hlast["h1"].k) /\ HChain(b) # <<>>

\* A step clears the flag of a node only as the store of the unlock() of the
\* thread that swapped tail just before the owner of the node, while the
\* owner spins for the same lock; and that store does clear the flag.
ClearedByPredecessor ==
  /\ \A u \in HThreads :
       (mlocked[u] /\ ~mlocked'[u]) =>
         \E t \in HThreads \ {u} :
           /\ hpc[t] = "u_rel" /\ hpc'[t] = "idle"
           /\ mprev[u] = t /\ mnext[t] = u
           /\ hpc[u] = "spin" /\ HBucketOf(u) = HBucketOf(t)
  /\ \A t \in HThreads :
       (hpc[t] = "u_rel" /\ hpc'[t] = "idle") => ~mlocked'[mnext[t]]

\* A step of unlock() that finds tail on its own node puts tail back to null.
TailReset ==
  \A t \in HThreads :
    (hpc[t] = "u_cas" /\ hpc'[t] # "u_cas" /\ mtail[HBucketOf(t)] = t) =>
      /\ mtail'[HBucketOf(t)] = NoNode
      /\ hpc'[t] = "idle"

\* The flag an unlock() is about to clear is set and belongs to a spinning
\* thread, so no flag is cleared twice; a thread that had to wait is inside
\* its critical section only with its flag cleared.
ClearedOnce ==
  /\ \A t \in HThreads :
       (hpc[t] = "u_rel" /\ mnext[t] # NoNode) =>
         /\ mlocked[mnext[t]]
         /\ hpc[mnext[t]] = "spin"
  /\ \A u \in HThreads :
       (hpc[u] \in CsPcs /\ mprev[u] # NoNode) => ~mlocked[u]

\* C37: the locked flag of a waiting node is cleared exactly once, by the
\* unlock() of the thread that swapped tail immediately before it and after
\* that thread has left its critical section; an unlock() with no successor
\* sets tail back to null.
C37_HandOff == [][ClearedByPredecessor /\ TailReset]_vars /\ []ClearedOnce

\* C37 witness: a thread is inside its critical section after its flag was
\* cleared by a predecessor that has returned from unlock(), and a third
\* thread waits behind it.
C37_Witness ==
  \E t, u, w \in HThreads :
    /\ hpc[u] \in CsPcs /\ ~mlocked[u]
    /\ hpc[t] = "idle" /\ hlast[t].passed
    /\ hpc[w] = "spin" /\ mprev[w] = u

\* The threads that have swapped their node into tail of the lock of bucket b
\* and have not yet returned from unlock(): the waiters and the holder.
InQueue(b) ==
  {t \in HThreads :
     HBucketOf(t) = b /\ hpc[t] \in {"link", "spin"} \cup CsPcs \cup UnlockPcs}

\* C38: tail of a bucket lock is null exactly when no thread holds the lock
\* or has swapped itself into its queue, and otherwise it points to the node
\* of the thread whose swap was the latest; once every call has returned,
\* tail of every bucket lock is null.
C38_TailInvariant ==
  /\ \A b \in Buckets :
       /\ mtail[b] = NoNode <=> InQueue(b) = {}
       /\ InQueue(b) # {} =>
            /\ mtail[b] \in InQueue(b)
            /\ hord[b] # <<>> /\ mtail[b] = hord[b][Len(hord[b])]
            /\ {hord[b][i] : i \in DOMAIN hord[b]} = InQueue(b)
  /\ (\A t \in HThreads : hpc[t] = "idle") => \A b \in Buckets : mtail[b] = NoNode

\* C38 witness: the three threads of the churn workload have made all their
\* calls on one bucket, one of them after waiting for the lock, and tail of
\* that lock is null again.
C38_Witness ==
  /\ hwork = "churn"
  /\ \A t \in HThreads : hpc[t] = "idle" /\ hprog[t] = <<>>
  /\ \E t \in HThreads : hlast[t].waited /\ mtail[bucket_index(hlast[t].k)] = NoNode

\* ------------------------------------------------- MCS lock: node reuse
\* The thread t is in a lock() / unlock() cycle that uses an MCSNode an
\* earlier cycle of t has used, and is between the return of lock() and the
\* call of unlock().
HoldsAgain(t) ==
  /\ hop[t].op = "hold"
  /\ hlast[t].op = "hold"
  /\ hpc[t] \in CsPcs

\* C39: mutual exclusion holds when a thread uses its MCSNode again for a
\* later lock() / unlock() cycle: a thread that is in the critical section
\* of such a cycle is the only thread in the critical section of that lock,
\* and a thread whose tail.swap of such a cycle found a predecessor is there
\* only after that predecessor has left it.
C39_ReuseExclusion ==
  \A t \in HThreads :
    HoldsAgain(t) =>
      /\ Holders(HBucketOf(t)) = {t}
      /\ mprev[t] # NoNode => Head(hord[HBucketOf(t)]) = t

====
